---- MODULE Spec2Model ----
(***************************************************************************)
(* Agent SDK of xiaot623/gogo: the /invoke dispatcher (agent.py), the SSE  *)
(* event builder and the text streamers (sse.py), the demo agent           *)
(* (agent-demo main.py) and the platform client with its tool, LLM, agent  *)
(* and session sub-clients (client.py), as state machines; the validation *)
(* of the request body against the models (models.py) and the close of an  *)
(* inbound connection under a running response are part of the dispatcher. *)
(*                                                                         *)
(* Python values: an Optional[T] is a sequence of length <= 1 (None is     *)
(* <<>>, a present value v is <<v>>); a str that the code slices is a      *)
(* sequence of one-character strings; a dict is a function whose DOMAIN    *)
(* is its set of keys.                                                     *)
(***************************************************************************)
EXTENDS Integers, Sequences, FiniteSets, TLC

VARIABLES
    agent,      \* the Agent instance the process serves (fixed after construction)
    req,        \* per invocation: the inbound POST /invoke (wire body and headers)
    body,       \* per invocation: the parsed InvokeRequest object the handler mutates
    ctx,        \* per invocation: the InvokeContext handed to Agent.invoke
    gen,        \* per invocation: the frame of the async generator Agent.invoke returned
    sse,        \* heap of SSEResponse builders: slot -> Optional [run_id]
    dpc,        \* per invocation: position of the dispatcher (StreamingResponse)
    produced,   \* per invocation: the elements the agent's generator yielded so far
    sent,       \* per invocation: the elements handed to the transport so far
    sync,       \* one iteration of the synchronous generator stream_text_sync
    calls,      \* the orchestrator's tool calls: tool_call_id -> status ("none": not created)
    op,         \* the ToolClient operation the caller is in
    reqs,       \* the requests that operation has sent so far
    resp,       \* the last HTTP response the client received
    outcome,    \* how the last operation ended: a returned ToolResult or a raised exception
    seenTerminal, \* per tool_call_id: the first terminal status a returned ToolResult
                \* carried, and the operation that returned it
    held,       \* a ToolResult an earlier operation returned and the caller kept
    codec       \* an SSEResponse builder in use: the object, the run_id it was made
                \* with, the number of calls made on it, the last call and its result

dvars == <<agent, req, body, ctx, gen, sse, dpc, produced, sent, sync>>
tvars == <<calls, op, reqs, resp, outcome, seenTerminal, held>>

\* the invocations in flight
Invs == DOMAIN req

----------------------------------------------------------------------------
(* Bounds of the model *)

NumInv == 2        \* invocations in flight in the concurrency specifications
MaxLen == 2        \* longest input text
MaxChunk == 2      \* chunk_size ranges over 1..MaxChunk (and the default)
MaxScript == 3     \* longest event script of a hand-written handler
MaxCalls == 2      \* tool calls the orchestrator creates
MaxLines == 3      \* longest streamed response body, in lines
MaxEmit == 2       \* calls made on one SSEResponse builder

(* Program constants *)

DefaultChunkSize == 10
DefaultDelayMs == 50
DemoChunkSize == 5
DemoDelayMs == 30
DefaultTimeoutMs == 60000
HttpTimeoutSec == 300

----------------------------------------------------------------------------
(* Python values *)

None == <<>>
Some(v) == <<v>>
EmptyDict == [k \in {} |-> k]

\* the outcome of a call: the value it returns or the exception it raises
Returned(result) == [kind |-> "return", value |-> Some(result), exc |-> ""]
Raised(exc) == [kind |-> "raise", value |-> None, exc |-> exc]

\* a dump that keeps an absent field, with a null for its value
Field_null(k, opt) == k :> (IF opt = None THEN <<>> ELSE opt[1])

\* model_dump(exclude_none=True) of one field: an absent value leaves no key
Field(k, opt) == IF opt = None THEN EmptyDict ELSE (k :> opt[1])

Min(a, b) == IF a < b THEN a ELSE b

\* text[i : i + n] of a Python str (0-based, clipped at the end)
Slice(text, i, n) == SubSeq(text, i + 1, Min(i + n, Len(text)))

\* len(s.split()): the number of maximal runs of non-blank characters
WordCount(s) ==
    Cardinality({i \in 1..Len(s) : s[i] # " " /\ (i = 1 \/ s[i - 1] = " ")})

Chars == {"a", "b", " "}
Texts(n) == UNION {[1..k -> Chars] : k \in 0..n}

----------------------------------------------------------------------------
(* Python str values on the wire, character by character. A character that *)
(* has no printable form is named: "LF" is U+000A, "LS" is U+2028 (LINE    *)
(* SEPARATOR), each one character of the str.                              *)

LF == "LF"
LS == "LS"

\* s.startswith(prefix)
StartsWith(s, prefix) ==
    Len(s) >= Len(prefix) /\ SubSeq(s, 1, Len(prefix)) = prefix

\* s[n:]
From(s, n) == SubSeq(s, n + 1, Len(s))

\* the characters str.strip() removes (str.isspace() holds of U+2028 too)
Whitespace == {" ", LF, LS}

RECURSIVE LStrip(_)
LStrip(s) == IF s # <<>> /\ Head(s) \in Whitespace THEN LStrip(Tail(s)) ELSE s

RECURSIVE RStrip(_)
RStrip(s) ==
    IF s # <<>> /\ s[Len(s)] \in Whitespace THEN RStrip(SubSeq(s, 1, Len(s) - 1)) ELSE s

\* s.strip()
Strip(s) == RStrip(LStrip(s))

\* the characters at which response.aiter_lines() ends a line: it splits as
\* str.splitlines() does, at U+000A and at the Unicode line boundaries
LineBoundaries == {LF, LS}

\* text.splitlines(): the stretches between the boundaries, and what is left
\* after the last boundary unless that is nothing
SplitLines(text) ==
    LET ends == SelectSeq([i \in 1..Len(text) |-> i], LAMBDA i : text[i] \in LineBoundaries)
        start(j) == IF j = 1 THEN 1 ELSE ends[j - 1] + 1
        rest == IF ends = <<>> THEN 1 ELSE ends[Len(ends)] + 1
    IN  [j \in 1..Len(ends) |-> SubSeq(text, start(j), ends[j] - 1)]
            \o (IF rest <= Len(text) THEN <<SubSeq(text, rest, Len(text))>> ELSE <<>>)

----------------------------------------------------------------------------
(* sse.py: the event codec *)

SSEEventType == {"delta", "state", "done", "error"}

\* json.dumps(data, ensure_ascii=False): the JSON text of a dict
json_dumps(data) == [json |-> data]

\* f"event: {event_type}\ndata: {data_str}\n\n"; a str payload passes verbatim
format_sse_event(event_type, data, is_dict) ==
    [event |-> event_type, data |-> IF is_dict THEN json_dumps(data) ELSE data]

\* DeltaEvent(text, run_id).model_dump(exclude_none=True)
DeltaEvent_dump(text, run_id) == ("text" :> text) @@ Field("run_id", run_id)

\* StateEvent(state, detail).model_dump(exclude_none=True)
StateEvent_dump(state, detail) == ("state" :> state) @@ Field("detail", detail)

\* Usage(...).model_dump(exclude_none=True), nested in the done event's dump
Usage_dump(u) ==
    Field("tokens", u.tokens) @@ Field("prompt_tokens", u.prompt_tokens)
        @@ Field("completion_tokens", u.completion_tokens)
        @@ Field("duration_ms", u.duration_ms)

\* DoneEvent(final_message, usage).model_dump(exclude_none=True)
DoneEvent_dump(final_message, usage) ==
    Field("final_message", final_message)
        @@ Field("usage", IF usage = None THEN None ELSE Some(Usage_dump(usage[1])))

\* ErrorEvent(code, message).model_dump()
ErrorEvent_dump(code, message) == [code |-> code, message |-> message]

\* an ErrorEvent that takes an absent field as the empty string
ErrorEvent_init_coercing(code, message) ==
    Returned([code |-> IF code = None THEN <<>> ELSE code[1],
              message |-> IF message = None THEN <<>> ELSE message[1]])

\* ErrorEvent(code=code, message=message): both fields are declared
\* "str = Field(...)", so a None for either fails the model's validation
ErrorEvent_init(code, message) ==
    IF code = None \/ message = None THEN Raised("pydantic.ValidationError")
    ELSE Returned([code |-> code[1], message |-> message[1]])

SSEResponse_init(run_id) == [run_id |-> run_id]

SSEResponse_delta(self, text) ==
    format_sse_event("delta", DeltaEvent_dump(text, self.run_id), TRUE)

SSEResponse_state(self, state, detail) ==
    format_sse_event("state", StateEvent_dump(state, detail), TRUE)

SSEResponse_done(self, final_message, usage) ==
    format_sse_event("done", DoneEvent_dump(final_message, usage), TRUE)

SSEResponse_error(self, code, message) ==
    format_sse_event("error", ErrorEvent_dump(code, message), TRUE)

\* sse.error(**kwargs): code and message are parameters without a default, so
\* a call that leaves one out raises TypeError before the body runs; then the
\* ErrorEvent is built and, if that succeeds, dumped and formatted
SSEResponse_error_kwargs(self, kwargs) ==
    IF ~({"code", "message"} \subseteq DOMAIN kwargs) THEN Raised("TypeError")
    ELSE LET event == ErrorEvent_init(kwargs["code"], kwargs["message"])
         IN  IF event.kind = "raise" THEN event
             ELSE Returned(format_sse_event("error",
                               ErrorEvent_dump(event.value[1].code, event.value[1].message),
                               TRUE))

IsTerminal(e) == e.event \in {"done", "error"}

\* a builder that hands its run_id out once
SSEResponse_after_consuming(self) == [self EXCEPT !.run_id = None]

\* the builder after a call of delta, state, done or error: none of them
\* assigns an attribute
SSEResponse_after(self) == self

\* the call of the method named kind with the arguments args
SSEResponse_call(self, kind, args) ==
    CASE kind = "delta" -> SSEResponse_delta(self, args.text)
      [] kind = "state" -> SSEResponse_state(self, args.state, args.detail)
      [] kind = "done" -> SSEResponse_done(self, args.final_message, args.usage)
      [] kind = "error" -> SSEResponse_error(self, args.code, args.message)

----------------------------------------------------------------------------
(* The characters of the strings the codec builds, and json.loads on them  *)

\* the characters of the identifiers the code and the payloads spell out
NameChars(name) ==
    CASE name = "delta" -> <<"d", "e", "l", "t", "a">>
      [] name = "state" -> <<"s", "t", "a", "t", "e">>
      [] name = "done" -> <<"d", "o", "n", "e">>
      [] name = "error" -> <<"e", "r", "r", "o", "r">>
      [] name = "text" -> <<"t", "e", "x", "t">>
      [] name = "run_id" -> <<"r", "u", "n", "_", "i", "d">>
      [] name = "detail" -> <<"d", "e", "t", "a", "i", "l">>
      [] name = "final_message" -> <<"f", "i", "n", "a", "l", "_", "m", "e", "s", "s", "a", "g", "e">>
      [] name = "usage" -> <<"u", "s", "a", "g", "e">>
      [] name = "tokens" -> <<"t", "o", "k", "e", "n", "s">>
      [] name = "prompt_tokens" -> <<"p", "r", "o", "m", "p", "t", "_", "t", "o", "k", "e", "n", "s">>
      [] name = "completion_tokens" -> <<"c", "o", "m", "p", "l", "e", "t", "i", "o", "n", "_", "t", "o", "k", "e", "n", "s">>
      [] name = "duration_ms" -> <<"d", "u", "r", "a", "t", "i", "o", "n", "_", "m", "s">>
      [] name = "code" -> <<"c", "o", "d", "e">>
      [] name = "message" -> <<"m", "e", "s", "s", "a", "g", "e">>
      [] name = "step" -> <<"s", "t", "e", "p">>
      [] name = "a" -> <<"a">>

\* the keys of a dict in insertion order (the models' field order)
KeyOrder ==
    <<"text", "run_id", "state", "detail", "final_message", "usage", "tokens",
      "prompt_tokens", "completion_tokens", "duration_ms", "code", "message",
      "step", "a">>

KeysOf(d) == SelectSeq(KeyOrder, LAMBDA k : k \in DOMAIN d)

\* the Python type of the value under each key: json.dumps encodes by type
JsonKind(k) ==
    IF k \in {"tokens", "prompt_tokens", "completion_tokens", "duration_ms", "a"} THEN "int"
    ELSE IF k \in {"usage", "detail"} THEN "obj"
    ELSE "str"

Digits == <<"0", "1", "2", "3", "4", "5", "6", "7", "8", "9">>

\* str(n) of a non-negative int
RECURSIVE IntText(_)
IntText(n) ==
    IF n < 10 THEN <<Digits[n + 1]>> ELSE Append(IntText(n \div 10), Digits[(n % 10) + 1])

\* the body of a JSON string literal with ensure_ascii=False: the quote, the
\* backslash and the control characters are escaped, every other character,
\* U+2028 among them, is written as it is
RECURSIVE JsonEscape(_)
JsonEscape(s) ==
    IF s = <<>> THEN <<>>
    ELSE (CASE Head(s) = LF -> <<"\\", "n">>
            [] Head(s) = "\"" -> <<"\\", "\"">>
            [] Head(s) = "\\" -> <<"\\", "\\">>
            [] OTHER -> <<Head(s)>>) \o JsonEscape(Tail(s))

JsonStringText(s) == <<"\"">> \o JsonEscape(s) \o <<"\"">>

\* json.dumps(d, ensure_ascii=False) of a dict, with the default separators
RECURSIVE JsonObjectText(_)
RECURSIVE JsonMembersText(_, _)
JsonMembersText(d, keys) ==
    IF keys = <<>> THEN <<>>
    ELSE JsonStringText(NameChars(Head(keys))) \o <<":", " ">>
         \o (CASE JsonKind(Head(keys)) = "int" -> IntText(d[Head(keys)])
               [] JsonKind(Head(keys)) = "obj" -> JsonObjectText(d[Head(keys)])
               [] OTHER -> JsonStringText(d[Head(keys)]))
         \o (IF Len(keys) > 1 THEN <<",", " ">> ELSE <<>>)
         \o JsonMembersText(d, Tail(keys))

JsonObjectText(d) == <<"{">> \o JsonMembersText(d, KeysOf(d)) \o <<"}">>

\* the characters of the str format_sse_event returns:
\* f"event: {event_type}\ndata: {data_str}\n\n"
Characters(e) ==
    <<"e", "v", "e", "n", "t", ":", " ">> \o NameChars(e.event) \o <<LF>>
        \o <<"d", "a", "t", "a", ":", " ">> \o JsonObjectText(e.data.json) \o <<LF, LF>>

\* json.loads: a recursive-descent reading of the characters from position i;
\* a result is [ok, val, next], next being the position after the value
JsonFail == [ok |-> FALSE, val |-> <<>>, next |-> 0]
JsonOk(v, i) == [ok |-> TRUE, val |-> v, next |-> i]

JsonWs == {" ", LF}

RECURSIVE SkipWs(_, _)
SkipWs(s, i) == IF i <= Len(s) /\ s[i] \in JsonWs THEN SkipWs(s, i + 1) ELSE i

\* the rest of a string literal, the opening quote read: acc is the value so far
RECURSIVE ParseStringBody(_, _, _)
ParseStringBody(s, i, acc) ==
    IF i > Len(s) THEN JsonFail
    ELSE IF s[i] = "\"" THEN JsonOk(acc, i + 1)
    ELSE IF s[i] = LF THEN JsonFail
    ELSE IF s[i] = "\\"
         THEN IF i + 1 > Len(s) THEN JsonFail
              ELSE IF s[i + 1] = "n" THEN ParseStringBody(s, i + 2, Append(acc, LF))
              ELSE IF s[i + 1] \in {"\"", "\\"}
                   THEN ParseStringBody(s, i + 2, Append(acc, s[i + 1]))
              ELSE JsonFail
    ELSE ParseStringBody(s, i + 1, Append(acc, s[i]))

IsDigit(c) == \E n \in 1..10 : Digits[n] = c
DigitValue(c) == (CHOOSE n \in 1..10 : Digits[n] = c) - 1

RECURSIVE ParseIntBody(_, _, _)
ParseIntBody(s, i, acc) ==
    IF i <= Len(s) /\ IsDigit(s[i]) THEN ParseIntBody(s, i + 1, 10 * acc + DigitValue(s[i]))
    ELSE JsonOk(acc, i)

\* the key a string literal spells, for the keys the model knows
IsKey(chars) == \E n \in 1..Len(KeyOrder) : NameChars(KeyOrder[n]) = chars
KeyOf(chars) == KeyOrder[CHOOSE n \in 1..Len(KeyOrder) : NameChars(KeyOrder[n]) = chars]

RECURSIVE ParseValue(_, _)
RECURSIVE ParseMembers(_, _, _)

\* the members of an object from position i on, a key expected: acc is the dict so far
ParseMembers(s, i, acc) ==
    IF i > Len(s) \/ s[i] # "\"" THEN JsonFail
    ELSE LET k == ParseStringBody(s, i + 1, <<>>) IN
         IF ~k.ok \/ ~IsKey(k.val) THEN JsonFail
         ELSE LET c == SkipWs(s, k.next) IN
              IF c > Len(s) \/ s[c] # ":" THEN JsonFail
              ELSE LET v == ParseValue(s, SkipWs(s, c + 1)) IN
                   IF ~v.ok THEN JsonFail
                   ELSE LET d == (KeyOf(k.val) :> v.val) @@ acc
                            e == SkipWs(s, v.next)
                        IN  IF e > Len(s) THEN JsonFail
                            ELSE IF s[e] = "}" THEN JsonOk(d, e + 1)
                            ELSE IF s[e] = "," THEN ParseMembers(s, SkipWs(s, e + 1), d)
                            ELSE JsonFail

ParseValue(s, i) ==
    IF i > Len(s) THEN JsonFail
    ELSE IF s[i] = "\"" THEN ParseStringBody(s, i + 1, <<>>)
    ELSE IF IsDigit(s[i]) THEN ParseIntBody(s, i, 0)
    ELSE IF s[i] = "{"
         THEN LET m == SkipWs(s, i + 1) IN
              IF m <= Len(s) /\ s[m] = "}" THEN JsonOk(EmptyDict, m + 1)
              ELSE ParseMembers(s, m, EmptyDict)
    ELSE JsonFail

\* json.loads(s): the value, or a JSONDecodeError (ok is FALSE)
json_loads(s) ==
    LET r == ParseValue(s, SkipWs(s, 1)) IN
    IF r.ok /\ SkipWs(s, r.next) > Len(s) THEN r ELSE JsonFail

----------------------------------------------------------------------------
(* agent-demo main.py: the mock response *)

\* "This is a mock LLM response for: "
MockPrefix ==
    << "T", "h", "i", "s", " ", "i", "s", " ", "a", " ", "m", "o", "c", "k", " ",
       "L", "L", "M", " ", "r", "e", "s", "p", "o", "n", "s", "e", " ", "f", "o",
       "r", ":", " " >>

response_content(user_input) == MockPrefix \o user_input

\* int((len(response_content) / chunk_size) * delay * 1000) in IEEE doubles with
\* chunk_size = 5 and delay = 0.03: 6 * n, one less where the product rounds down
DemoDurationMs(n) == IF n \in {33, 38, 41, 46} THEN 6 * n - 1 ELSE 6 * n

DemoUsage(user_input) ==
    LET prompt_tokens == WordCount(user_input)
        completion_tokens == WordCount(response_content(user_input))
    IN  [tokens |-> Some(prompt_tokens + completion_tokens),
         prompt_tokens |-> Some(prompt_tokens),
         completion_tokens |-> Some(completion_tokens),
         duration_ms |-> Some(DemoDurationMs(Len(response_content(user_input))))]

----------------------------------------------------------------------------
(* models.py: the request and the context *)

\* the values of the enum Role
Role == {"user", "assistant", "system"}

\* Message: "role: str = Field(...)" and "content: str = Field(...)" are both
\* required; role is declared str, so every string validates as a role
Message_valid(m) == {"role", "content"} \subseteq DOMAIN m

\* a validation that fills every missing field with an empty value
InvokeRequest_validate_defaulting(raw) ==
    LET str(f, k) == IF k \in DOMAIN f THEN f[k] ELSE ""
        msg(f) == [role |-> str(f, "role"),
                   content |-> IF "content" \in DOMAIN f THEN f["content"] ELSE <<>>]
        opt(k) == IF k \in DOMAIN raw THEN raw[k] ELSE None
    IN  Returned([agent_id |-> str(raw, "agent_id"),
                  session_id |-> str(raw, "session_id"),
                  run_id |-> str(raw, "run_id"),
                  input_message |-> IF "input_message" \in DOMAIN raw
                                    THEN msg(raw["input_message"]) ELSE msg(EmptyDict),
                  messages |-> IF opt("messages") = None THEN None
                               ELSE Some([k \in DOMAIN raw["messages"][1] |->
                                            msg(raw["messages"][1][k])]),
                  context |-> opt("context")])

\* the body parameter "body: InvokeRequest" of the handler: the JSON object of
\* the request body validated against the model. agent_id, session_id, run_id
\* and input_message are required (Field(...)); messages and context default to
\* None; input_message and every element of messages must validate as Message
InvokeRequest_validate(raw) ==
    LET opt(k) == IF k \in DOMAIN raw THEN raw[k] ELSE None
    IN  IF /\ {"agent_id", "session_id", "run_id", "input_message"} \subseteq DOMAIN raw
           /\ Message_valid(raw["input_message"])
           /\ opt("messages") # None =>
                 \A k \in DOMAIN raw["messages"][1] : Message_valid(raw["messages"][1][k])
        THEN Returned([agent_id |-> raw["agent_id"],
                       session_id |-> raw["session_id"],
                       run_id |-> raw["run_id"],
                       input_message |-> raw["input_message"],
                       messages |-> opt("messages"),
                       context |-> opt("context")])
        ELSE Raised("RequestValidationError")

\* "x or default": the default when x is None or empty, x otherwise
Or(x, default) == IF x = None \/ DOMAIN x[1] = {} THEN Some(default) ELSE x

\* a context that takes a missing traceparent or platform_base_url from the
\* context mapping
InvokeContext_init_fallback(f) ==
    LET look(k) == IF f[k] = None /\ f.context # None /\ k \in DOMAIN f.context[1]
                   THEN Some(f.context[1][k]) ELSE f[k]
    IN  IF f.messages = None \/ f.context = None THEN Raised("pydantic.ValidationError")
        ELSE Returned([f EXCEPT !.messages = @[1], !.context = @[1],
                                !.traceparent = look("traceparent"),
                                !.platform_base_url = look("platform_base_url")])

\* InvokeContext(**f): messages is declared list[Message] and context
\* dict[str, Any], neither Optional, so a None for either fails validation
InvokeContext_init(f) ==
    IF f.messages = None \/ f.context = None THEN Raised("pydantic.ValidationError")
    ELSE Returned([f EXCEPT !.messages = @[1], !.context = @[1]])

\* a from_request that hands messages and context on as the request has them
InvokeContext_from_request_raw(request, traceparent, platform_base_url) ==
    InvokeContext_init(
        [agent_id |-> request.agent_id,
         session_id |-> request.session_id,
         run_id |-> request.run_id,
         input_message |-> request.input_message,
         messages |-> request.messages,
         context |-> request.context,
         traceparent |-> traceparent,
         platform_base_url |-> platform_base_url])

\* InvokeContext.from_request(request, traceparent, platform_base_url)
InvokeContext_from_request(request, traceparent, platform_base_url) ==
    InvokeContext_init(
        [agent_id |-> request.agent_id,
         session_id |-> request.session_id,
         run_id |-> request.run_id,
         input_message |-> request.input_message,
         messages |-> Or(request.messages, <<>>),
         context |-> Or(request.context, EmptyDict),
         traceparent |-> traceparent,
         platform_base_url |-> platform_base_url])

----------------------------------------------------------------------------
(* agent.py: the /invoke handler *)

\* the lookup that never finds the header
HeaderGet_ignored(header, default) == default

\* request.headers.get(name, default): the header's value, the default if absent
HeaderGet(header, default) == IF header = None THEN default ELSE header[1]

\* an override that builds a new body of the required fields alone when a
\* header changes an identifier
OverrideBody_rebuilding(b, headers) ==
    LET session_id == HeaderGet(headers.X_Session_ID, b.session_id)
        run_id == HeaderGet(headers.X_Run_ID, b.run_id)
    IN  IF session_id # b.session_id \/ run_id # b.run_id
        THEN [b EXCEPT !.session_id = session_id, !.run_id = run_id,
                       !.messages = None, !.context = None]
        ELSE b

\* the body after "Update body with header values if present"
OverrideBody(b, headers) ==
    LET session_id == HeaderGet(headers.X_Session_ID, b.session_id)
        run_id == HeaderGet(headers.X_Run_ID, b.run_id)
        b1 == IF session_id # b.session_id THEN [b EXCEPT !.session_id = session_id] ELSE b
    IN  IF run_id # b1.run_id THEN [b1 EXCEPT !.run_id = run_id] ELSE b1

NewFrame == [pc |-> "unstarted", idx |-> 0, full_text |-> <<>>, sse |-> 0]

\* a POST /invoke whose body does not validate as InvokeRequest: the handler is
\* not called and the framework answers with its validation error response
RejectRequest(i) ==
    /\ dpc[i].pc = "waiting"
    /\ InvokeRequest_validate(req[i].body).kind = "raise"
    /\ dpc' = [dpc EXCEPT ![i] = [pc |-> "rejected", chunk |-> Some([status |-> 422])]]
    /\ UNCHANGED <<agent, req, body, ctx, gen, sse, produced, sent, sync>>
    /\ UNCHANGED <<tvars, codec>>

\* invoke_handler, called with the validated body: read the headers, override
\* the body, build the context, hand the agent's (not yet started) generator to
\* a StreamingResponse, which begins to send the response start
InvokeHandler(i) ==
    /\ dpc[i].pc = "waiting"
    /\ InvokeRequest_validate(req[i].body).kind = "return"
    /\ LET b == OverrideBody(InvokeRequest_validate(req[i].body).value[1], req[i].headers)
           c == InvokeContext_from_request(b, req[i].headers.traceparent,
                                           req[i].headers.x_platform_base_url)
       IN  /\ body' = [body EXCEPT ![i] = Some(b)]
           /\ ctx' = [ctx EXCEPT ![i] = c.value]
           /\ dpc' = [dpc EXCEPT ![i] =
                        [pc |-> IF c.kind = "return" THEN "start" ELSE "failed",
                         chunk |-> None]]
    /\ gen' = [gen EXCEPT ![i] = NewFrame]
    /\ UNCHANGED <<agent, req, sse, produced, sent, sync>>
    /\ UNCHANGED <<tvars, codec>>

----------------------------------------------------------------------------
(* sse.py stream_text, main.py DemoAgent.invoke, agent.py FunctionAgent.invoke: *)
(* the generators, run from one suspension point to the next                   *)

\* for i in range(0, len(text), chunk_size), chunk_size >= 1
RangeHas(i, stop) == i < stop

\* a loop index that moves on by one character whatever the chunk size
RangeNext_unit(i, step) == i + 1

RangeNext(i, step) == i + step

\* the text the agent streams
AgentText(a, c) ==
    IF a.kind = "demo" THEN response_content(c.input_message.content)
    ELSE c.input_message.content

\* the event a hand-written handler builds for one entry of its script
ScriptEvent(kind, s, c) ==
    CASE kind = "delta" -> SSEResponse_delta(s, c.input_message.content)
      [] kind = "state" -> SSEResponse_state(s, "thinking", None)
      [] kind = "done" -> SSEResponse_done(s, None, None)
      [] kind = "error" -> SSEResponse_error(s, "E_HANDLER", "boom")

\* the element FunctionAgent.invoke yields for an event of its handler
FunctionAgent_invoke(event) == event

Yield(g, e) == [gen |-> g, out |-> [kind |-> "yield", value |-> Some(e)]]
Sleep(g) == [gen |-> [g EXCEPT !.pc = "sleeping"], out |-> [kind |-> "sleep", value |-> None]]
Return(g) == [gen |-> [g EXCEPT !.pc = "closed"], out |-> [kind |-> "return", value |-> None]]
Await(g) == [gen |-> [g EXCEPT !.pc = "awaiting"], out |-> [kind |-> "await", value |-> None]]

\* a FunctionAgent whose handler relays an outbound stream of the platform
\* client: "async for chunk in client.llm.chat_completions_stream(...)" or
\* "async for event in client.agents.invoke(...)", one delta per element
RelayKinds == {"relay_llm", "relay_agent"}

\* the final message sent as one more delta instead of a done event
FinalEvent_delta(a, c, s, g) == SSEResponse_delta(s, AgentText(a, c))

\* the last yield of stream_text and of DemoAgent.invoke
FinalEvent(a, c, s, g) ==
    IF a.kind = "demo"
    THEN SSEResponse_done(s, Some(g.full_text), Some(DemoUsage(c.input_message.content)))
    ELSE SSEResponse_done(s, Some(AgentText(a, c)), None)

\* the top of the agent's loop with loop index idx: the next chunk, or the end
LoopTop(a, c, s, g, idx) ==
    IF a.kind = "script"
    THEN IF idx < Len(a.script)
         THEN Yield([g EXCEPT !.pc = "yielded_ev", !.idx = idx],
                    FunctionAgent_invoke(ScriptEvent(a.script[idx + 1], s, c)))
         ELSE Return(g)
    ELSE IF RangeHas(idx, Len(AgentText(a, c)))
         THEN LET chunk == Slice(AgentText(a, c), idx, a.chunk_size)
              IN  Yield([g EXCEPT !.pc = "yielded_delta", !.idx = idx,
                                  !.full_text = g.full_text \o chunk],
                        SSEResponse_delta(s, chunk))
         ELSE Yield([g EXCEPT !.pc = "yielded_done", !.idx = idx],
                    FinalEvent(a, c, s, g))

\* resume the generator where it is suspended and run it to its next suspension
Resume(a, c, s, g) ==
    CASE g.pc = "unstarted" -> LoopTop(a, c, s, g, 0)
      [] g.pc = "yielded_delta" ->
            IF a.delay_ms > 0 THEN Sleep(g)
            ELSE LoopTop(a, c, s, g, RangeNext(g.idx, a.chunk_size))
      [] g.pc = "sleeping" -> LoopTop(a, c, s, g, RangeNext(g.idx, a.chunk_size))
      [] g.pc = "yielded_ev" -> LoopTop(a, c, s, g, g.idx + 1)
      [] g.pc = "yielded_chunk" -> Await(g)
      [] g.pc = "yielded_done" -> Return(g)

\* one builder object shared by every invocation of the process
SSEResponse_shared(i) == 1

\* the builder object "sse = SSEResponse(run_id=...)" binds in invocation i's frame
SSEResponse_slot(i) == i

\* a sleep that only ends while no other invocation is asleep
TimerFires_exclusive(i) == \A j \in DOMAIN gen \ {i} : gen[j].pc # "sleeping"

\* asyncio.sleep(delay) of invocation i completes whatever the others are doing
TimerFires(i) == TRUE

\* a dispatcher that stops forwarding once a done or error event went out
Forward_truncating(stream, chunk) ==
    IF \E k \in 1..Len(stream) : IsTerminal(stream[k]) THEN stream ELSE Append(stream, chunk)

\* StreamingResponse: "await send(chunk)" appends the chunk to the response body
Forward(stream, chunk) == Append(stream, chunk)

\* the dispatcher asks generator g for its next element (__anext__): the generator
\* runs to its next suspension; the dispatcher holds a yielded element and calls
\* send with it, and ends the response when the generator returns
Pull(i, g, heap) ==
    LET r == Resume(agent, ctx[i][1], heap[g.sse][1], g)
    IN  /\ gen' = [gen EXCEPT ![i] = r.gen]
        /\ IF r.out.kind = "yield"
           THEN /\ produced' = [produced EXCEPT ![i] = Append(@, r.out.value[1])]
                /\ dpc' = [dpc EXCEPT ![i] = [pc |-> "send", chunk |-> r.out.value]]
           ELSE IF r.out.kind = "return"
           THEN /\ dpc' = [dpc EXCEPT ![i] = [pc |-> "complete", chunk |-> None]]
                /\ UNCHANGED produced
           ELSE /\ dpc' = [dpc EXCEPT ![i] = [pc |-> "pull", chunk |-> None]]
                /\ UNCHANGED produced

\* the response start is on the wire: the dispatcher starts the generator, whose
\* first statement builds its SSEResponse
StartResponse(i) ==
    /\ dpc[i].pc = "start"
    /\ agent.kind \notin RelayKinds
    /\ LET slot == SSEResponse_slot(i)
       IN  /\ sse' = [sse EXCEPT ![slot] = Some(SSEResponse_init(Some(ctx[i][1].run_id)))]
           /\ Pull(i, [gen[i] EXCEPT !.sse = slot], sse')
    /\ UNCHANGED <<agent, req, body, ctx, sent, sync>>
    /\ UNCHANGED <<tvars, codec>>

\* the inter-chunk sleep of a suspended generator ends and the generator goes on
Wake(i) ==
    /\ gen[i].pc = "sleeping"
    /\ TimerFires(i)
    /\ Pull(i, gen[i], sse)
    /\ UNCHANGED <<agent, req, body, ctx, sse, sent, sync>>
    /\ UNCHANGED <<tvars, codec>>

\* "await send(chunk)" returns: the element the dispatcher held is with the
\* transport, and only then the dispatcher asks for the next one
Send(i) ==
    /\ dpc[i].pc = "send"
    /\ sent' = [sent EXCEPT ![i] = Forward(@, dpc[i].chunk[1])]
    /\ Pull(i, gen[i], sse)
    /\ UNCHANGED <<agent, req, body, ctx, sse, sync>>
    /\ UNCHANGED <<tvars, codec>>

----------------------------------------------------------------------------
(* sse.py stream_text_sync: one next() of the synchronous generator *)

SyncNext ==
    /\ sync.active
    /\ sync.pc # "closed"
    /\ LET s == SSEResponse_init(sync.run_id)
           idx == IF sync.pc = "unstarted" THEN 0 ELSE RangeNext(sync.idx, sync.chunk_size)
       IN  IF sync.pc = "yielded_done"
           THEN sync' = [sync EXCEPT !.pc = "closed"]
           ELSE IF RangeHas(idx, Len(sync.text))
           THEN sync' = [sync EXCEPT
                            !.pc = "yielded_delta", !.idx = idx,
                            !.out = Append(@, SSEResponse_delta(s,
                                        Slice(sync.text, idx, sync.chunk_size)))]
           ELSE sync' = [sync EXCEPT
                            !.pc = "yielded_done", !.idx = idx,
                            !.out = Append(@, SSEResponse_done(s, Some(sync.text), None))]
    /\ UNCHANGED <<agent, req, body, ctx, gen, sse, dpc, produced, sent>>
    /\ UNCHANGED <<tvars, codec>>

----------------------------------------------------------------------------
(* The orchestrator's tool-call API, as section 4.5 of the specification     *)
(* describes it: a call is created pending or terminal, a pending call       *)
(* becomes succeeded or failed, a terminal call stays as it is               *)

ToolCallIds == 1..MaxCalls
TerminalStatus == {"succeeded", "failed"}

Created == {id \in ToolCallIds : calls[id] # "none"}
NextId == Cardinality(Created) + 1

\* the JSON body the orchestrator answers with for call id in status st
OrchData(id, st) ==
    [tool_call_id |-> id, status |-> st]
        @@ (IF st = "succeeded" THEN "result" :> [value |-> "ok"] ELSE EmptyDict)
        @@ (IF st = "failed" THEN "error" :> [message |-> "denied"] ELSE EmptyDict)

\* approval, execution or rejection of a pending call
OrchProgress(id) ==
    /\ calls[id] = "pending"
    /\ \E st \in TerminalStatus : calls' = [calls EXCEPT ![id] = st]
    /\ UNCHANGED <<op, reqs, resp, outcome, seenTerminal, held>>
    /\ UNCHANGED <<dvars, codec>>

----------------------------------------------------------------------------
(* client.py: ToolResult and ToolClient *)

\* data.get(key)
DictGet(d, k) == IF k \in DOMAIN d THEN Some(d[k]) ELSE None

\* a ToolResult whose status is worked out from the other fields
ToolResult_init_deriving(tool_call_id, status, result, error) ==
    [tool_call_id |-> tool_call_id,
     status |-> IF result # None THEN "succeeded" ELSE IF error # None THEN "failed" ELSE "unknown",
     result |-> result, error |-> error]

ToolResult_init(tool_call_id, status, result, error) ==
    [tool_call_id |-> tool_call_id, status |-> status, result |-> result, error |-> error]

\* "pending" taken to mean "not succeeded"
ToolResult_pending_loose(self) == self.status # "succeeded"

ToolResult_succeeded(self) == self.status = "succeeded"
ToolResult_pending(self) == self.status = "pending"
ToolResult_failed(self) == self.status = "failed"

HttpRequest(kind, id, payload) == [kind |-> kind, id |-> id, payload |-> payload]

\* POST /v1/tools/{tool_name}:invoke with its JSON payload
ToolInvokeRequest(run_id, idempotency_key, timeout_ms) ==
    HttpRequest("invoke", 0,
        [run_id |-> run_id, args |-> "args", timeout_ms |-> timeout_ms]
            @@ (IF idempotency_key # None /\ idempotency_key # Some("")
                THEN "idempotency_key" :> idempotency_key[1] ELSE EmptyDict))

\* GET /v1/tool_calls/{tool_call_id}
ToolStatusRequest(tool_call_id) == HttpRequest("get_status", tool_call_id, EmptyDict)

\* a wait that always asks for the default budget
ToolWaitRequest_default(tool_call_id, timeout_ms) ==
    [kind |-> "wait", id |-> tool_call_id, payload |-> [timeout_ms |-> DefaultTimeoutMs]]

\* POST /v1/tool_calls/{tool_call_id}:wait?timeout_ms=...
ToolWaitRequest(tool_call_id, timeout_ms) ==
    HttpRequest("wait", tool_call_id, [timeout_ms |-> timeout_ms])

\* an HTTP exchange as the client sees it: a response with a status code and a
\* JSON body, or no response at all (error names the httpx exception)
HttpResponse(code, data) == [error |-> "", code |-> code, data |-> data]
HttpFailure(error) == [error |-> error, code |-> 0, data |-> None]

\* "response = await self._client..." followed by response.raise_for_status():
\* the exception, if any, the two lines raise
TransportException(r) ==
    IF r.error # "" THEN r.error
    ELSE IF r.code \notin 200..299 THEN "httpx.HTTPStatusError"
    ELSE ""

\* an invoke that answers a failed request with a ToolResult of its own making
ToolClient_invoke_fabricating(r) ==
    IF r.error # "" \/ r.code \notin 200..299
    THEN Returned(ToolResult_init(0, "pending", None, None))
    ELSE Returned(ToolResult_init(r.data[1].tool_call_id, r.data[1].status,
                                  DictGet(r.data[1], "result"), DictGet(r.data[1], "error")))

\* ToolClient.invoke from the response on
ToolClient_invoke_finish(r) ==
    IF TransportException(r) # "" THEN Raised(TransportException(r))
    ELSE Returned(ToolResult_init(r.data[1].tool_call_id, r.data[1].status,
                                  DictGet(r.data[1], "result"), DictGet(r.data[1], "error")))

\* get_status deriving the status from the presence of an error instead of
\* reading the "status" key
ToolClient_get_status_guessing(r) ==
    IF r.error # "" \/ r.code \notin 200..299 THEN Raised("httpx.HTTPStatusError")
    ELSE Returned(ToolResult_init(r.data[1].tool_call_id,
                                  IF "error" \in DOMAIN r.data[1] THEN "failed" ELSE "pending",
                                  DictGet(r.data[1], "result"), DictGet(r.data[1], "error")))

\* ToolClient.get_status from the response on
ToolClient_get_status_finish(r) ==
    IF TransportException(r) # "" THEN Raised(TransportException(r))
    ELSE Returned(ToolResult_init(r.data[1].tool_call_id, r.data[1].status,
                                  DictGet(r.data[1], "result"), DictGet(r.data[1], "error")))

\* a wait that turns a still pending answer into an exception
ToolClient_wait_raising(r) ==
    IF r.error # "" \/ r.code \notin 200..299 THEN Raised("httpx.HTTPStatusError")
    ELSE IF r.data[1].status = "pending" THEN Raised("TimeoutError")
    ELSE Returned(ToolResult_init(r.data[1].tool_call_id, r.data[1].status,
                                  DictGet(r.data[1], "result"), DictGet(r.data[1], "error")))

\* ToolClient.wait from the response on
ToolClient_wait_finish(r) ==
    IF TransportException(r) # "" THEN Raised(TransportException(r))
    ELSE Returned(ToolResult_init(r.data[1].tool_call_id, r.data[1].status,
                                  DictGet(r.data[1], "result"), DictGet(r.data[1], "error")))

\* the httpx client gives up on a response after its timeout (300.0 s by default)
HttpTimeoutMs == 1000 * HttpTimeoutSec

\* budgets a caller passes: a short one, the default, one beyond the HTTP timeout
Timeouts == {DefaultTimeoutMs \div 2, DefaultTimeoutMs, 2 * HttpTimeoutMs}
RunId == "run_001"

Idle == [name |-> "none", pc |-> "idle", tool_call_id |-> 0, timeout_ms |-> 0,
         result |-> None, lines |-> <<>>, pos |-> 0, event_type |-> None, out |-> <<>>]

CanCall == op.pc \in {"idle", "done"}

\* the caller calls tools.invoke(tool_name, args, idempotency_key, timeout_ms)
CallInvoke ==
    /\ CanCall
    /\ NextId <= MaxCalls
    /\ \E k \in {None, Some(""), Some("key-1")}, t \in Timeouts :
          /\ op' = [Idle EXCEPT !.name = "invoke", !.pc = "invoke_sent", !.timeout_ms = t]
          /\ reqs' = <<ToolInvokeRequest(RunId, k, t)>>
    /\ resp' = None
    /\ outcome' = None
    /\ UNCHANGED <<calls, seenTerminal, held>>
    /\ UNCHANGED <<dvars, codec>>

\* the caller calls tools.get_status(tool_call_id)
CallGetStatus ==
    /\ CanCall
    /\ \E id \in ToolCallIds :
          /\ op' = [Idle EXCEPT !.name = "get_status", !.pc = "status_sent",
                                !.tool_call_id = id]
          /\ reqs' = <<ToolStatusRequest(id)>>
    /\ resp' = None
    /\ outcome' = None
    /\ UNCHANGED <<calls, seenTerminal, held>>
    /\ UNCHANGED <<dvars, codec>>

\* the caller calls tools.wait(tool_call_id, timeout_ms)
CallWait ==
    /\ CanCall
    /\ \E id \in ToolCallIds, t \in Timeouts :
          /\ op' = [Idle EXCEPT !.name = "wait", !.pc = "wait_sent",
                                !.tool_call_id = id, !.timeout_ms = t]
          /\ reqs' = <<ToolWaitRequest(id, t)>>
    /\ resp' = None
    /\ outcome' = None
    /\ UNCHANGED <<calls, seenTerminal, held>>
    /\ UNCHANGED <<dvars, codec>>

\* the caller calls tools.invoke_and_wait(tool_name, args, idempotency_key, timeout_ms)
CallInvokeAndWait ==
    /\ CanCall
    /\ NextId <= MaxCalls
    /\ \E k \in {None, Some("key-1")}, t \in Timeouts :
          /\ op' = [Idle EXCEPT !.name = "invoke_and_wait", !.pc = "invoke_sent",
                                !.timeout_ms = t]
          /\ reqs' = <<ToolInvokeRequest(RunId, k, t)>>
    /\ resp' = None
    /\ outcome' = None
    /\ UNCHANGED <<calls, seenTerminal, held>>
    /\ UNCHANGED <<dvars, codec>>

\* a client that keeps the ToolResult of a tool call and brings it up to date
\* in place with every later answer about that call
Earlier_refreshed(h, o) ==
    IF h # None /\ o.kind = "return" /\ h[1].tool_call_id = o.value[1].tool_call_id
    THEN o.value ELSE h

\* a ToolResult h the caller holds, after an operation ended with outcome o:
\* "return ToolResult(...)" builds a new object from the response and the
\* client keeps no reference to one it returned
Earlier(h, o) == h

\* the operation ends with outcome o; a returned ToolResult is one more
\* observation of its tool call by the caller
Finish(o) ==
    /\ outcome' = Some(o)
    /\ held' = Earlier(held, o)
    /\ op' = [op EXCEPT !.pc = "done"]
    /\ seenTerminal' =
          IF o.kind = "return" /\ o.value[1].status \in TerminalStatus
             /\ o.value[1].tool_call_id \in ToolCallIds
             /\ seenTerminal[o.value[1].tool_call_id] = None
          THEN [seenTerminal EXCEPT ![o.value[1].tool_call_id] =
                    Some([status |-> o.value[1].status, by |-> op.name])]
          ELSE seenTerminal

\* an invoke that is sent again when it raised
AfterInvoke_retrying(o) ==
    IF o.kind = "raise" /\ Len(reqs) < 2
    THEN /\ op' = op
         /\ reqs' = Append(reqs, reqs[1])
         /\ outcome' = None
         /\ UNCHANGED <<seenTerminal, held>>
    ELSE /\ Finish(o)
         /\ UNCHANGED reqs

\* invoke_and_wait after its invoke returned result: one wait if it is pending
AfterInvoke(o) ==
    IF op.name = "invoke_and_wait" /\ o.kind = "return" /\ ToolResult_pending(o.value[1])
    THEN /\ op' = [op EXCEPT !.pc = "wait_sent", !.result = o.value,
                             !.tool_call_id = o.value[1].tool_call_id]
         /\ reqs' = Append(reqs, ToolWaitRequest(o.value[1].tool_call_id, op.timeout_ms))
         /\ outcome' = None
         /\ UNCHANGED <<seenTerminal, held>>
    ELSE /\ Finish(o)
         /\ UNCHANGED reqs

\* the caller keeps the ToolResult the operation just returned
KeepResult ==
    /\ held = None
    /\ op.pc = "done"
    /\ op.name \in {"invoke", "get_status", "wait", "invoke_and_wait"}
    /\ outcome # None
    /\ outcome[1].kind = "return"
    /\ held' = outcome[1].value
    /\ UNCHANGED <<calls, op, reqs, resp, outcome, seenTerminal>>
    /\ UNCHANGED <<dvars, codec>>

\* an operation that returns no ToolResult ends with outcome o
FinishPlain(o) ==
    /\ outcome' = Some(o)
    /\ op' = [op EXCEPT !.pc = "done"]
    /\ UNCHANGED <<seenTerminal, held>>

\* chat_completions, list_agents, get_messages and register_agent from the
\* response on: raise_for_status(), then the value built from response.json()
Plain_finish(name, r) ==
    IF TransportException(r) # "" THEN Raised(TransportException(r))
    ELSE CASE name = "list_agents" -> Returned(r.data[1].agents)
           [] name = "get_messages" ->
                Returned([i \in DOMAIN r.data[1].messages |->
                            [role |-> r.data[1].messages[i].role,
                             content |-> r.data[1].messages[i].content]])
           [] OTHER -> Returned(r.data[1])

\* a streaming call from the response headers on: "async with ... as response:
\* response.raise_for_status()", then the loop over response.aiter_lines()
StreamOpened(r) ==
    IF TransportException(r) # ""
    THEN FinishPlain(Raised(TransportException(r)))
    ELSE /\ op' = [op EXCEPT !.pc = "reading", !.lines = r.data[1]]
         /\ outcome' = None
         /\ UNCHANGED <<seenTerminal, held>>

\* the answer to the request in flight arrives and the operation goes on with r
Receive(r) ==
    /\ resp' = Some(r)
    /\ CASE op.pc = "invoke_sent" -> AfterInvoke(ToolClient_invoke_finish(r))
         [] op.pc = "status_sent" ->
                Finish(ToolClient_get_status_finish(r)) /\ UNCHANGED reqs
         [] op.pc = "wait_sent" ->
                Finish(ToolClient_wait_finish(r)) /\ UNCHANGED reqs
         [] op.pc = "plain_sent" ->
                FinishPlain(Plain_finish(op.name, r)) /\ UNCHANGED reqs
         [] op.pc = "stream_sent" ->
                StreamOpened(r) /\ UNCHANGED reqs

InFlight == op.pc \in {"invoke_sent", "status_sent", "wait_sent", "plain_sent", "stream_sent"}

\* the orchestrator creates the call, pending or already terminal, and answers 200
InvokeResponse ==
    /\ op.pc = "invoke_sent"
    /\ \E st \in {"pending"} \cup TerminalStatus :
          /\ calls' = [calls EXCEPT ![NextId] = st]
          /\ Receive(HttpResponse(200, Some(OrchData(NextId, st))))
    /\ UNCHANGED <<dvars, codec>>

\* the orchestrator answers a poll of an existing call with its present status
StatusResponse ==
    /\ op.pc = "status_sent"
    /\ op.tool_call_id \in Created
    /\ Receive(HttpResponse(200, Some(OrchData(op.tool_call_id, calls[op.tool_call_id]))))
    /\ UNCHANGED calls
    /\ UNCHANGED <<dvars, codec>>

\* the orchestrator answers a wait: with the terminal status once the call has
\* one, with "pending" when timeout_ms ran out first, which it can only tell a
\* client that has not given up before
WaitResponse ==
    /\ op.pc = "wait_sent"
    /\ op.tool_call_id \in Created
    /\ calls[op.tool_call_id] = "pending" => op.timeout_ms < HttpTimeoutMs
    /\ Receive(HttpResponse(200, Some(OrchData(op.tool_call_id, calls[op.tool_call_id]))))
    /\ UNCHANGED calls
    /\ UNCHANGED <<dvars, codec>>

\* a non-2xx answer: 404 for a call that does not exist, 500 at any time
ErrorResponse ==
    /\ InFlight
    /\ \E code \in {404, 500} :
          /\ code = 404 => op.pc # "invoke_sent" /\ op.tool_call_id \notin Created
          /\ Receive(HttpResponse(code, None))
    /\ UNCHANGED calls
    /\ UNCHANGED <<dvars, codec>>

\* no answer: the connection fails, or nothing arrives within the HTTP timeout
ConnectionFailure ==
    /\ InFlight
    /\ \E e \in {"httpx.ConnectError", "httpx.ReadTimeout"} : Receive(HttpFailure(e))
    /\ UNCHANGED calls
    /\ UNCHANGED <<dvars, codec>>

----------------------------------------------------------------------------
(* client.py: LLMClient, AgentClient, SessionClient, register_agent *)

\* the caller calls llm.chat_completions(model, messages)
CallChatCompletions ==
    /\ CanCall
    /\ op' = [Idle EXCEPT !.name = "chat_completions", !.pc = "plain_sent"]
    /\ reqs' = <<HttpRequest("chat_completions", 0,
                    [model |-> "m", messages |-> "msgs", stream |-> FALSE, x_run_id |-> RunId])>>
    /\ resp' = None
    /\ outcome' = None
    /\ UNCHANGED <<calls, seenTerminal, held>>
    /\ UNCHANGED <<dvars, codec>>

\* the caller calls agents.list_agents()
CallListAgents ==
    /\ CanCall
    /\ op' = [Idle EXCEPT !.name = "list_agents", !.pc = "plain_sent"]
    /\ reqs' = <<HttpRequest("list_agents", 0, EmptyDict)>>
    /\ resp' = None
    /\ outcome' = None
    /\ UNCHANGED <<calls, seenTerminal, held>>
    /\ UNCHANGED <<dvars, codec>>

\* the caller calls sessions.get_messages(session_id, limit, before)
CallGetMessages ==
    /\ CanCall
    /\ \E before \in {None, Some(""), Some("cursor")} :
          /\ op' = [Idle EXCEPT !.name = "get_messages", !.pc = "plain_sent"]
          /\ reqs' = <<HttpRequest("get_messages", 0,
                          [limit |-> 50]
                              @@ (IF before # None /\ before # Some("")
                                  THEN "before" :> before[1] ELSE EmptyDict))>>
    /\ resp' = None
    /\ outcome' = None
    /\ UNCHANGED <<calls, seenTerminal, held>>
    /\ UNCHANGED <<dvars, codec>>

\* the caller calls client.register_agent(agent_id, name, endpoint, capabilities)
CallRegisterAgent ==
    /\ CanCall
    /\ op' = [Idle EXCEPT !.name = "register_agent", !.pc = "plain_sent"]
    /\ reqs' = <<HttpRequest("register_agent", 0,
                    [agent_id |-> "demo", name |-> "Demo Agent", endpoint |-> "url",
                     capabilities |-> <<>>])>>
    /\ resp' = None
    /\ outcome' = None
    /\ UNCHANGED <<calls, seenTerminal, held>>
    /\ UNCHANGED <<dvars, codec>>

\* the caller starts iterating llm.chat_completions_stream(model, messages)
CallChatCompletionsStream ==
    /\ CanCall
    /\ op' = [Idle EXCEPT !.name = "chat_completions_stream", !.pc = "stream_sent"]
    /\ reqs' = <<HttpRequest("chat_completions_stream", 0,
                    [model |-> "m", messages |-> "msgs", stream |-> TRUE, x_run_id |-> RunId])>>
    /\ resp' = None
    /\ outcome' = None
    /\ UNCHANGED <<calls, seenTerminal, held>>
    /\ UNCHANGED <<dvars, codec>>

\* the caller starts iterating agents.invoke(agent_id, message)
CallAgentInvoke ==
    /\ CanCall
    /\ op' = [Idle EXCEPT !.name = "agents.invoke", !.pc = "stream_sent"]
    /\ reqs' = <<HttpRequest("agents.invoke", 0,
                    [parent_run_id |-> RunId, input_message |-> "msg"])>>
    /\ resp' = None
    /\ outcome' = None
    /\ UNCHANGED <<calls, seenTerminal, held>>
    /\ UNCHANGED <<dvars, codec>>

DataSpace == <<"d", "a", "t", "a", ":", " ">>
DataColon == <<"d", "a", "t", "a", ":">>
EventColon == <<"e", "v", "e", "n", "t", ":">>
DoneSentinel == <<"[", "D", "O", "N", "E", "]">>

\* a pass that yields nothing and forgets the pending event type
StepSkip_forgetting(event_type) == [kind |-> "skip", value |-> None, event_type |-> None]

\* what one pass of a line loop does: nothing (with the pending event type it
\* leaves), a yield of one element, a break out of the loop, or a raise
StepSkip(event_type) == [kind |-> "skip", value |-> None, event_type |-> event_type]

\* a yield that resets the pending event type for the next pair
StepYield_clearing(v, event_type) == [kind |-> "yield", value |-> Some(v), event_type |-> None]

StepYield(v, event_type) == [kind |-> "yield", value |-> Some(v), event_type |-> event_type]
StepBreak == [kind |-> "break", value |-> None, event_type |-> None]
StepRaise(exc) == [kind |-> "raise", value |-> Some(exc), event_type |-> None]

\* a loop body that takes the sentinel for one more line to pass over
LLMClient_line_lenient(line) ==
    IF StartsWith(line, DataSpace) /\ From(line, 6) # DoneSentinel
    THEN IF json_loads(From(line, 6)).ok
         THEN StepYield(json_loads(From(line, 6)).val, None)
         ELSE StepRaise("json.JSONDecodeError")
    ELSE StepSkip(None)

\* the body of the loop of chat_completions_stream for one line
LLMClient_line(line) ==
    IF StartsWith(line, DataSpace)
    THEN LET data == From(line, 6) IN
         IF data = DoneSentinel THEN StepBreak
         ELSE IF json_loads(data).ok THEN StepYield(json_loads(data).val, None)
         ELSE StepRaise("json.JSONDecodeError")
    ELSE StepSkip(None)

\* a loop body that passes over a data line it cannot decode
AgentClient_line_tolerant(raw, event_type) ==
    IF Strip(raw) = <<>> THEN StepSkip(event_type)
    ELSE IF StartsWith(Strip(raw), EventColon)
         THEN StepSkip(Some(Strip(From(Strip(raw), 6))))
    ELSE IF StartsWith(Strip(raw), DataColon) /\ json_loads(Strip(From(Strip(raw), 5))).ok
         THEN StepYield([type |-> event_type,
                         data |-> json_loads(Strip(From(Strip(raw), 5))).val], event_type)
    ELSE StepSkip(event_type)

\* the body of the loop of AgentClient.invoke for one line
AgentClient_line(raw, event_type) ==
    LET line == Strip(raw) IN
    IF line = <<>> THEN StepSkip(event_type)
    ELSE IF StartsWith(line, EventColon) THEN StepSkip(Some(Strip(From(line, 6))))
    ELSE IF StartsWith(line, DataColon)
         THEN LET data == json_loads(Strip(From(line, 5))) IN
              IF data.ok THEN StepYield([type |-> event_type, data |-> data.val], event_type)
              ELSE StepRaise("json.JSONDecodeError")
    ELSE StepSkip(event_type)

\* the end of an async generator: the consumer's "async for" finishes
Stopped == [kind |-> "return", value |-> None, exc |-> ""]

\* a loop that ends after it yielded the pair of a done event
StreamNext_closing(step) ==
    IF op.pos = Len(op.lines)
    THEN /\ op' = [op EXCEPT !.pc = "done"]
         /\ outcome' = Some(Stopped)
    ELSE CASE step.kind = "skip" ->
                /\ op' = [op EXCEPT !.pos = @ + 1, !.event_type = step.event_type]
                /\ UNCHANGED outcome
           [] step.kind = "yield" /\ step.event_type = Some(NameChars("done")) ->
                /\ op' = [op EXCEPT !.pos = @ + 1, !.out = Append(@, step.value[1]),
                                    !.pc = "done"]
                /\ outcome' = Some(Stopped)
           [] step.kind = "yield" /\ step.event_type # Some(NameChars("done")) ->
                /\ op' = [op EXCEPT !.pos = @ + 1, !.out = Append(@, step.value[1]),
                                    !.event_type = step.event_type]
                /\ UNCHANGED outcome
           [] step.kind = "break" ->
                /\ op' = [op EXCEPT !.pos = @ + 1, !.pc = "done"]
                /\ outcome' = Some(Stopped)
           [] step.kind = "raise" ->
                /\ op' = [op EXCEPT !.pos = @ + 1, !.pc = "done"]
                /\ outcome' = Some(Raised(step.value[1]))

\* the generator reads the next line of the response and runs the loop body on
\* it; with no line left the loop, and with it the generator, ends
StreamNext(step) ==
    IF op.pos = Len(op.lines)
    THEN /\ op' = [op EXCEPT !.pc = "done"]
         /\ outcome' = Some(Stopped)
    ELSE CASE step.kind = "skip" ->
                /\ op' = [op EXCEPT !.pos = @ + 1, !.event_type = step.event_type]
                /\ UNCHANGED outcome
           [] step.kind = "yield" ->
                /\ op' = [op EXCEPT !.pos = @ + 1, !.out = Append(@, step.value[1]),
                                    !.event_type = step.event_type]
                /\ UNCHANGED outcome
           [] step.kind = "break" ->
                /\ op' = [op EXCEPT !.pos = @ + 1, !.pc = "done"]
                /\ outcome' = Some(Stopped)
           [] step.kind = "raise" ->
                /\ op' = [op EXCEPT !.pos = @ + 1, !.pc = "done"]
                /\ outcome' = Some(Raised(step.value[1]))

NextLine == op.lines[op.pos + 1]

\* one pass of "async for line in response.aiter_lines()" in chat_completions_stream
ChatStreamNext ==
    /\ op.name = "chat_completions_stream"
    /\ op.pc = "reading"
    /\ StreamNext(IF op.pos < Len(op.lines) THEN LLMClient_line(NextLine) ELSE StepBreak)
    /\ UNCHANGED <<calls, reqs, resp, seenTerminal, held>>
    /\ UNCHANGED <<dvars, codec>>

\* one pass of "async for line in response.aiter_lines()" in AgentClient.invoke
RelayNext ==
    /\ op.name = "agents.invoke"
    /\ op.pc = "reading"
    /\ StreamNext(IF op.pos < Len(op.lines)
                  THEN AgentClient_line(NextLine, op.event_type) ELSE StepBreak)
    /\ UNCHANGED <<calls, reqs, resp, seenTerminal, held>>
    /\ UNCHANGED <<dvars, codec>>

\* the connection breaks while the body is being read: aiter_lines() raises
StreamBroken ==
    /\ op.pc = "reading"
    /\ op.pos < Len(op.lines)
    /\ op' = [op EXCEPT !.pc = "done"]
    /\ outcome' = Some(Raised("httpx.ReadError"))
    /\ UNCHANGED <<calls, reqs, resp, seenTerminal, held>>
    /\ UNCHANGED <<dvars, codec>>

\* the JSON body the orchestrator answers a plain call with
PlainData(name) ==
    CASE name = "list_agents" -> [agents |-> <<[agent_id |-> "demo"]>>]
      [] name = "get_messages" -> [messages |-> <<[role |-> "user", content |-> "hi"]>>]
      [] name = "register_agent" -> [status |-> "registered"]
      [] OTHER -> [choices |-> <<[message |-> [role |-> "assistant", content |-> "ok"]]>>]

\* the orchestrator answers a plain call with 200 and a JSON body
PlainResponse ==
    /\ op.pc = "plain_sent"
    /\ Receive(HttpResponse(200, Some(PlainData(op.name))))
    /\ UNCHANGED calls
    /\ UNCHANGED <<dvars, codec>>

\* the orchestrator answers a streaming call with 200; the body it will send
\* is one of Bodies, each a sequence of lines
StreamResponse(Bodies) ==
    /\ op.pc = "stream_sent"
    /\ \E ls \in Bodies : Receive(HttpResponse(200, Some(ls)))
    /\ UNCHANGED calls
    /\ UNCHANGED <<dvars, codec>>

----------------------------------------------------------------------------
(* agent.py and client.py: an invocation whose handler holds an outbound     *)
(* stream, and the inbound connection closing under it                       *)

\* the stream a relaying handler iterates
StreamNameOf(a) ==
    IF a.kind = "relay_llm" THEN "chat_completions_stream" ELSE "agents.invoke"

\* the request "self._client.stream(...)" sends
StreamRequest(name) ==
    IF name = "chat_completions_stream"
    THEN HttpRequest(name, 0,
             [model |-> "m", messages |-> "msgs", stream |-> TRUE, x_run_id |-> RunId])
    ELSE HttpRequest(name, 0, [parent_run_id |-> RunId, input_message |-> "msg"])

\* the outbound connection of the stream is held: the request is out, or the
\* response is being read
StreamOpen == op.pc \in {"stream_sent", "reading"}

\* a stream opened without "async with": nothing closes it when the generator
\* is left by an exception
StreamClose_leaking(o) == o

\* the exit of "async with self._client.stream(...) as response", which every
\* way out of the generator's body passes: the response is closed and its
\* connection released
StreamClose(o) == [o EXCEPT !.pc = "done"]

\* the response start is on the wire: the dispatcher starts the generator of a
\* relaying handler, which builds its SSEResponse, sends the request of the
\* stream and waits for the response
StartRelay(i) ==
    /\ dpc[i].pc = "start"
    /\ agent.kind \in RelayKinds
    /\ CanCall
    /\ LET slot == SSEResponse_slot(i)
       IN  /\ sse' = [sse EXCEPT ![slot] = Some(SSEResponse_init(Some(ctx[i][1].run_id)))]
           /\ gen' = [gen EXCEPT ![i] = [@ EXCEPT !.sse = slot, !.pc = "awaiting"]]
    /\ dpc' = [dpc EXCEPT ![i] = [pc |-> "pull", chunk |-> None]]
    /\ op' = [Idle EXCEPT !.name = StreamNameOf(agent), !.pc = "stream_sent"]
    /\ reqs' = <<StreamRequest(StreamNameOf(agent))>>
    /\ resp' = None
    /\ outcome' = None
    /\ UNCHANGED <<calls, seenTerminal, held>>
    /\ UNCHANGED <<agent, req, body, ctx, produced, sent, sync>>
    /\ UNCHANGED codec

\* the stream's generator reads a line for the handler that waits on it: an
\* element it yields becomes a delta of the handler, its end the handler's
\* done, an exception it raises leaves the handler and ends the response
RelayPull(i) ==
    /\ dpc[i].pc = "pull"
    /\ gen[i].pc = "awaiting"
    /\ op.pc = "reading"
    /\ LET step == IF op.pos = Len(op.lines) THEN StepBreak
                   ELSE IF op.name = "chat_completions_stream"
                   THEN LLMClient_line(NextLine)
                   ELSE AgentClient_line(NextLine, op.event_type)
           s == sse[gen[i].sse][1]
           Hand(e, pc) ==
               /\ gen' = [gen EXCEPT ![i].pc = pc]
               /\ produced' = [produced EXCEPT ![i] = Append(@, e)]
               /\ dpc' = [dpc EXCEPT ![i] = [pc |-> "send", chunk |-> Some(e)]]
       IN  /\ StreamNext(step)
           /\ CASE step.kind = "skip" -> UNCHANGED <<gen, produced, dpc>>
                [] step.kind = "yield" -> Hand(SSEResponse_delta(s, <<"c">>), "yielded_chunk")
                [] step.kind = "break" -> Hand(SSEResponse_done(s, None, None), "yielded_done")
                [] step.kind = "raise" ->
                      /\ gen' = [gen EXCEPT ![i].pc = "closed"]
                      /\ dpc' = [dpc EXCEPT ![i] = [pc |-> "failed", chunk |-> None]]
                      /\ UNCHANGED produced
    /\ UNCHANGED <<calls, reqs, resp, seenTerminal, held>>
    /\ UNCHANGED <<agent, req, body, ctx, sse, sent, sync>>
    /\ UNCHANGED codec

\* the inbound connection of invocation i closes while its response is under
\* way: the StreamingResponse is cancelled where it waits. Waiting on the
\* generator (which itself waits in a sleep or on the outbound stream), the
\* cancellation is raised inside the generator and leaves it through every
\* "async with" it is in; waiting in send, the generator stays suspended at its
\* yield and is never resumed
Disconnect(i) ==
    /\ dpc[i].pc \in {"start", "pull", "send"}
    /\ dpc' = [dpc EXCEPT ![i] = [pc |-> "cancelled", chunk |-> None]]
    /\ IF dpc[i].pc = "pull"
       THEN /\ gen' = [gen EXCEPT ![i].pc = "closed"]
            /\ IF gen[i].pc = "awaiting" /\ StreamOpen
               THEN /\ op' = StreamClose(op)
                    /\ outcome' = Some(Raised("asyncio.CancelledError"))
               ELSE UNCHANGED <<op, outcome>>
       ELSE UNCHANGED <<gen, op, outcome>>
    /\ UNCHANGED <<calls, reqs, resp, seenTerminal, held>>
    /\ UNCHANGED <<agent, req, body, ctx, sse, produced, sent, sync>>
    /\ UNCHANGED codec

\* the generator a cancelled response left suspended is finalized: aclose()
\* raises GeneratorExit at its yield and the generator ends without running on
Finalize(i) ==
    /\ dpc[i].pc = "cancelled"
    /\ gen[i].pc # "closed"
    /\ gen' = [gen EXCEPT ![i].pc = "closed"]
    /\ UNCHANGED <<agent, req, body, ctx, sse, dpc, produced, sent, sync>>
    /\ UNCHANGED <<tvars, codec>>

\* the stream's generator, suspended at its yield with no handler left to
\* iterate it, is finalized in turn: GeneratorExit leaves it through its
\* "async with"
FinalizeStream ==
    /\ op.pc = "reading"
    /\ \E i \in Invs : dpc[i].pc = "cancelled" /\ gen[i].pc = "closed"
    /\ op' = StreamClose(op)
    /\ outcome' = Some(Raised("GeneratorExit"))
    /\ UNCHANGED <<calls, reqs, resp, seenTerminal, held>>
    /\ UNCHANGED <<dvars, codec>>

----------------------------------------------------------------------------
(* sse.py: calls on one SSEResponse builder *)

\* a call of a method of the builder returns: the result is kept, the builder
\* is what the method left of it
Emit(kind, args) ==
    /\ codec.calls < MaxEmit
    /\ codec' = [codec EXCEPT !.self = SSEResponse_after(@),
                              !.calls = @ + 1,
                              !.last = Some([kind |-> kind, args |-> args,
                                             out |-> SSEResponse_call(codec.self, kind, args)]),
                              !.attempt = None]
    /\ UNCHANGED <<dvars, tvars>>

\* a call of sse.error with the keyword arguments kwargs returns or raises:
\* only a call that returns hands a string to the caller
EmitError(kwargs) ==
    /\ codec.calls < MaxEmit
    /\ LET r == SSEResponse_error_kwargs(codec.self, kwargs)
       IN  codec' = [codec EXCEPT
                        !.self = SSEResponse_after(@),
                        !.calls = @ + 1,
                        !.last = IF r.kind = "raise" THEN None
                                 ELSE Some([kind |-> "error",
                                            args |-> r.value[1].data.json,
                                            out |-> r.value[1]]),
                        !.attempt = Some([kwargs |-> kwargs, result |-> r])]
    /\ UNCHANGED <<dvars, tvars>>

----------------------------------------------------------------------------
(* The inputs: requests on the wire and the agents a process may serve *)

Message(role, content) == [role |-> role, content |-> content]

Headers(traceparent, url, session_id, run_id) ==
    [traceparent |-> traceparent, x_platform_base_url |-> url,
     X_Session_ID |-> session_id, X_Run_ID |-> run_id]

Request(session_id, run_id, content, messages, context, headers) ==
    [body |-> [agent_id |-> "demo", session_id |-> session_id, run_id |-> run_id,
               input_message |-> Message("user", content),
               messages |-> messages, context |-> context],
     headers |-> headers]

Opt(S) == {None} \cup {Some(x) : x \in S}

AgentOf(kind, chunk_size, delay_ms, script) ==
    [kind |-> kind, chunk_size |-> chunk_size, delay_ms |-> delay_ms, script |-> script]

\* DemoAgent: chunk_size = 5, delay = 0.03 s
DemoAgent == AgentOf("demo", DemoChunkSize, DemoDelayMs, <<>>)

\* a FunctionAgent whose handler is stream_text(content, run_id, chunk_size, delay_ms)
StreamTextAgents ==
    {AgentOf("stream_text", cs, d, <<>>) :
        cs \in (1..MaxChunk) \cup {DefaultChunkSize}, d \in {0, DefaultDelayMs}}

\* a FunctionAgent whose hand-written handler yields the events of a script;
\* nothing makes a handler end its script with a terminal event, or stop after one
Scripts == UNION {[1..k -> {"delta", "done", "error"}] : k \in 0..MaxScript}
ScriptAgents == {AgentOf("script", 1, 0, s) : s \in Scripts}

\* requests that vary the identifiers and the headers
InvokeRequests ==
    {Request(s, r, <<"a">>, m, c, Headers(tp, url, hs, hr)) :
        s \in {"s1", "s2"}, r \in {"r1", "r2"},
        m \in {None, Some(<<>>), Some(<<Message("system", <<"b">>)>>)},
        c \in {None, Some(EmptyDict),
               Some([traceparent |-> "tp-body", platform_base_url |-> "url-body"])},
        tp \in Opt({"tp-1"}), url \in Opt({"http://orch"}),
        hs \in Opt({"s1", "s2"}), hr \in Opt({"r1", "r2"})}

\* the mapping f without the key k
Without(f, k) == [x \in DOMAIN f \ {k} |-> f[x]]

\* JSON bodies of a POST /invoke: complete ones, whose roles are of the enum
\* or not, and ones that lack a key of the body or of a message
RawBodies ==
    LET Full(role, m) ==
            [agent_id |-> "demo", session_id |-> "s1", run_id |-> "r1",
             input_message |-> Message(role, <<"a">>), messages |-> m, context |-> None]
        Complete ==
            {Full(role, m) :
                role \in Role \cup {"narrator"},
                m \in {None, Some(<<Message("system", <<"b">>)>>),
                       Some(<<Message("user", <<"b">>), Message("narrator", <<"c">>)>>)}}
        Base == Full("user", Some(<<Message("assistant", <<"b">>)>>))
    IN  Complete
        \cup {Without(Base, k) : k \in DOMAIN Base}
        \cup {[Base EXCEPT !.input_message = Without(@, k)] : k \in {"role", "content"}}
        \cup {[Base EXCEPT !.messages = Some(<<Without(@[1][1], k)>>)] :
                  k \in {"role", "content"}}

ValidateRequests ==
    {[body |-> b, headers |-> Headers(None, None, None, hr)] :
        b \in RawBodies, hr \in Opt({"r2"})}

\* a text that takes several chunks of every chunk size up to MaxChunk and
\* leaves a shorter last one
LongText == [k \in 1..(2 * MaxChunk + 1) |-> "a"]

\* requests that vary the text
StreamRequests ==
    {Request("s1", "r1", t, None, None, Headers(None, None, None, hr)) :
        t \in Texts(MaxLen) \cup {LongText}, hr \in Opt({"r2"})}

\* requests of concurrent invocations: with and without a run id override
ConcRequests ==
    {Request("s1", "r1", <<"a">>, None, None, Headers(None, None, None, None)),
     Request("s1", "r2", <<"b">>, None, None, Headers(None, None, None, Some("r3")))}

SyncIdle ==
    [active |-> FALSE, text |-> <<>>, run_id |-> None, chunk_size |-> 1,
     pc |-> "closed", idx |-> 0, out |-> <<>>]

InitDispatch(I, Requests, Agents) ==
    /\ agent \in Agents
    /\ req \in [I -> Requests]
    /\ body = [i \in I |-> None]
    /\ ctx = [i \in I |-> None]
    /\ gen = [i \in I |-> NewFrame]
    /\ sse = [i \in I |-> None]
    /\ dpc = [i \in I |-> [pc |-> "waiting", chunk |-> None]]
    /\ produced = [i \in I |-> <<>>]
    /\ sent = [i \in I |-> <<>>]

\* list(stream_text_sync(text, run_id, chunk_size)) about to start
SyncInputs ==
    {[active |-> TRUE, text |-> t, run_id |-> r, chunk_size |-> cs,
      pc |-> "unstarted", idx |-> 0, out |-> <<>>] :
        t \in Texts(MaxLen) \cup {LongText}, r \in Opt({"r1"}),
        cs \in (1..MaxChunk) \cup {DefaultChunkSize}}

ToolIdle ==
    /\ calls = [id \in ToolCallIds |-> "none"]
    /\ op = Idle
    /\ reqs = <<>>
    /\ resp = None
    /\ outcome = None
    /\ seenTerminal = [id \in ToolCallIds |-> None]
    /\ held = None

\* the str values handed to the builder: short texts with a letter, a quote,
\* a newline and a U+2028 in them
CodecChars == {"a", "\"", LF, LS}
CodecTexts == UNION {[1..k -> CodecChars] : k \in 0..MaxLen}
CodecNames == {<<"E">>, <<"o", "k">>}
CodecRunIds == {None, Some(<<>>), Some(<<"r", "1">>)}
CodecDetails == {None, Some(EmptyDict), Some([step |-> <<"a">>])}

Usage(tokens, prompt_tokens, completion_tokens, duration_ms) ==
    [tokens |-> tokens, prompt_tokens |-> prompt_tokens,
     completion_tokens |-> completion_tokens, duration_ms |-> duration_ms]

CodecUsages ==
    {None, Some(Usage(None, None, None, None)), Some(Usage(Some(3), None, None, None)),
     Some(Usage(Some(3), Some(1), Some(2), Some(120)))}

\* sse.delta(text)
CodecDelta == \E text \in CodecTexts : Emit("delta", [text |-> text])

\* sse.state(state, detail)
CodecState ==
    \E state \in CodecNames, detail \in CodecDetails :
        Emit("state", [state |-> state, detail |-> detail])

\* sse.done(final_message, usage)
CodecDone ==
    \E final_message \in Opt(CodecTexts), usage \in CodecUsages :
        Emit("done", [final_message |-> final_message, usage |-> usage])

\* sse.error(code, message)
CodecError ==
    \E code \in CodecNames, message \in CodecTexts :
        Emit("error", [code |-> code, message |-> message])

\* sse.error(**kwargs) with any of code and message left out or None
CodecErrorKwargs ==
    \E given \in SUBSET {"code", "message"} :
        \E kwargs \in [given -> Opt({<<>>, <<"E">>})] : EmitError(kwargs)

\* no builder in use
CodecIdle == codec = [self |-> SSEResponse_init(None), made_with |-> None, calls |-> 0,
                      last |-> None, attempt |-> None]

vars == <<agent, req, body, ctx, gen, sse, dpc, produced, sent, sync,
          calls, op, reqs, resp, outcome, seenTerminal, held, codec>>

NextDispatch ==
    \/ \E i \in Invs : InvokeHandler(i)
    \/ \E i \in Invs : StartResponse(i)
    \/ \E i \in Invs : Wake(i)
    \/ \E i \in Invs : Send(i)


\* one /invoke, every combination of identifiers and headers
InitInvoke ==
    /\ InitDispatch({1}, InvokeRequests, {AgentOf("stream_text", 1, DefaultDelayMs, <<>>)})
    /\ sync = SyncIdle
    /\ ToolIdle
    /\ CodecIdle

SpecInvoke == InitInvoke /\ [][NextDispatch]_vars

\* one /invoke of every agent on every text, or one run of stream_text_sync
InitStream ==
    \/ /\ InitDispatch({1}, StreamRequests,
                       {DemoAgent} \cup StreamTextAgents \cup ScriptAgents)
       /\ sync = SyncIdle
       /\ ToolIdle
       /\ CodecIdle
    \/ /\ InitDispatch({}, {}, {DemoAgent})
       /\ sync \in SyncInputs
       /\ ToolIdle
       /\ CodecIdle

NextStream == NextDispatch \/ SyncNext

SpecStream == InitStream /\ [][NextStream]_vars

\* NumInv concurrent /invoke against one agent process
ConcAgents == {DemoAgent, AgentOf("stream_text", 1, DefaultDelayMs, <<>>)}

InitConc ==
    /\ InitDispatch(1..NumInv, ConcRequests, ConcAgents)
    /\ sync = SyncIdle
    /\ ToolIdle
    /\ CodecIdle

SpecConc == InitConc /\ [][NextDispatch]_vars

\* one POST /invoke with any JSON body
InitValidate ==
    /\ InitDispatch({1}, ValidateRequests, {AgentOf("stream_text", 1, DefaultDelayMs, <<>>)})
    /\ sync = SyncIdle
    /\ ToolIdle
    /\ CodecIdle

NextValidate ==
    \/ NextDispatch
    \/ \E i \in Invs : RejectRequest(i)

SpecValidate == InitValidate /\ [][NextValidate]_vars

\* the same, each invocation with one fixed request
InitFair ==
    /\ InitConc
    /\ \A i \in 1..NumInv :
          req[i].body.run_id = (IF i % 2 = 1 THEN "r1" ELSE "r2")

\* the event loop resumes every task that can run
FairConc ==
    /\ InitFair
    /\ [][NextDispatch]_vars
    /\ \A i \in 1..NumInv : WF_vars(InvokeHandler(i) \/ StartResponse(i) \/ Wake(i) \/ Send(i))

\* one caller of the tool sub-client and the orchestrator behind it
InitTool ==
    /\ InitDispatch({}, {}, {DemoAgent})
    /\ sync = SyncIdle
    /\ ToolIdle
    /\ CodecIdle

NextTool ==
    \/ CallInvoke
    \/ CallGetStatus
    \/ CallWait
    \/ CallInvokeAndWait
    \/ InvokeResponse
    \/ StatusResponse
    \/ WaitResponse
    \/ ErrorResponse
    \/ ConnectionFailure
    \/ \E id \in ToolCallIds : OrchProgress(id)

SpecTool == InitTool /\ [][NextTool]_vars

\* the same caller, who may keep a ToolResult across later operations
NextHold == NextTool \/ KeepResult

SpecHold == InitTool /\ [][NextHold]_vars

\* SSEResponse(run_id) just constructed, and the calls made on it
InitCodec ==
    /\ InitDispatch({}, {}, {DemoAgent})
    /\ sync = SyncIdle
    /\ ToolIdle
    /\ \E run_id \in CodecRunIds :
          codec = [self |-> SSEResponse_init(run_id), made_with |-> run_id, calls |-> 0,
                   last |-> None, attempt |-> None]

NextCodec ==
    \/ CodecDelta
    \/ CodecState
    \/ CodecDone
    \/ CodecError
    \/ CodecErrorKwargs

SpecCodec == InitCodec /\ [][NextCodec]_vars

\* the lines a streamed response body is made of
LineA1 == <<"d", "a", "t", "a", ":", " ", "{", "\"", "a", "\"", ":", " ", "1", "}">>
LineA2 == <<"d", "a", "t", "a", ":", " ", "{", "\"", "a", "\"", ":", " ", "2", "}">>
LineDone == <<"d", "a", "t", "a", ":", " ", "[", "D", "O", "N", "E", "]">>
LineBlank == <<>>
LineEventDone == <<"e", "v", "e", "n", "t", ":", " ", "d", "o", "n", "e">>
LineMalformed == <<"d", "a", "t", "a", ":", " ", "{", "\"", "a", "\"">>
LineNoSpace == <<"d", "a", "t", "a", ":", "{", "\"", "a", "\"", ":", " ", "1", "}">>
LineEventDelta == <<"e", "v", "e", "n", "t", ":", "d", "e", "l", "t", "a">>

Lines ==
    {LineA1, LineA2, LineDone, LineBlank, LineEventDone, LineMalformed, LineNoSpace,
     LineEventDelta}

Bodies(n) == UNION {[1..k -> Lines] : k \in 0..n}

\* the streaming calls of LLMClient and AgentClient against every body
NextRelay ==
    \/ CallChatCompletionsStream
    \/ CallAgentInvoke
    \/ StreamResponse(Bodies(MaxLines))
    \/ ErrorResponse
    \/ ConnectionFailure
    \/ ChatStreamNext
    \/ RelayNext
    \/ StreamBroken

SpecRelay == InitTool /\ [][NextRelay]_vars

\* every operation of the platform client, one at a time, the streaming calls
\* against two bodies
ClientBodies == {<<LineA1, LineDone, LineA2>>, <<LineEventDone, LineA1, LineMalformed>>}

NextClient ==
    \/ NextTool
    \/ CallChatCompletions
    \/ CallListAgents
    \/ CallGetMessages
    \/ CallRegisterAgent
    \/ CallChatCompletionsStream
    \/ CallAgentInvoke
    \/ PlainResponse
    \/ StreamResponse(ClientBodies)
    \/ ChatStreamNext
    \/ RelayNext
    \/ StreamBroken

SpecClient == InitTool /\ [][NextClient]_vars

\* one POST /invoke of a relaying or a sleeping agent, whose inbound connection
\* may close at any moment; the bodies the outbound stream answers with
CancelAgents ==
    {AgentOf(k, 1, 0, <<>>) : k \in RelayKinds}
        \cup {AgentOf("stream_text", 1, DefaultDelayMs, <<>>)}

CancelBodies ==
    {<<>>, <<LineA1, LineA2>>, <<LineEventDelta, LineA1, LineBlank>>,
     <<LineA1, LineDone, LineA2>>, <<LineMalformed>>}

InitCancel ==
    /\ InitDispatch({1}, ConcRequests, CancelAgents)
    /\ sync = SyncIdle
    /\ ToolIdle
    /\ CodecIdle

NextCancel ==
    \/ NextDispatch
    \/ \E i \in Invs : StartRelay(i)
    \/ StreamResponse(CancelBodies)
    \/ \E i \in Invs : RelayPull(i)
    \/ \E i \in Invs : Disconnect(i)
    \/ \E i \in Invs : Finalize(i)
    \/ FinalizeStream

\* the event loop runs the finalizers it scheduled
FairCancel ==
    /\ InitCancel
    /\ [][NextCancel]_vars
    /\ WF_vars(Finalize(1))
    /\ WF_vars(FinalizeStream)

----------------------------------------------------------------------------
(* The claims *)

HasTerminal(seq) == \E k \in 1..Len(seq) : IsTerminal(seq[k])

IsPrefix(p, q) == Len(p) <= Len(q) /\ SubSeq(q, 1, Len(p)) = p

\* the elements a generator yields when it is run alone to its end
RECURSIVE Drain(_, _, _, _)
Drain(a, c, s, g) ==
    LET r == Resume(a, c, s, g)
    IN  IF r.out.kind = "return" THEN <<>>
        ELSE IF r.out.kind = "yield" THEN <<r.out.value[1]>> \o Drain(a, c, s, r.gen)
        ELSE Drain(a, c, s, r.gen)

\* C1: the context's session_id and run_id are the X-Session-ID / X-Run-ID header
\* when the request carries it and the body's value when it does not, for every
\* combination of body and header values; the context exists, with these values,
\* before the agent's generator has run at all, and keeps them while it runs.
C1_HeaderPrecedence ==
    \A i \in Invs :
        /\ ctx[i] = None => dpc[i].pc = "waiting" /\ produced[i] = <<>>
        /\ ctx[i] # None =>
              /\ ctx[i][1].session_id =
                    (IF req[i].headers.X_Session_ID # None
                     THEN req[i].headers.X_Session_ID[1] ELSE req[i].body.session_id)
              /\ ctx[i][1].run_id =
                    (IF req[i].headers.X_Run_ID # None
                     THEN req[i].headers.X_Run_ID[1] ELSE req[i].body.run_id)

\* a request whose X-Run-ID differs from the body's run_id and that has no
\* X-Session-ID, with the agent already streaming
C1_Witness ==
    \E i \in Invs :
        /\ ctx[i] # None
        /\ produced[i] # <<>>
        /\ req[i].headers.X_Run_ID # None
        /\ req[i].headers.X_Run_ID[1] # req[i].body.run_id
        /\ req[i].headers.X_Session_ID = None

\* every element but the last is no done/error event, and once the sequence has
\* ended it is non-empty and its last element is a done/error event
TerminalLast(seq, ended) ==
    /\ \A k \in 1..(Len(seq) - 1) : ~IsTerminal(seq[k])
    /\ ended => Len(seq) >= 1 /\ IsTerminal(seq[Len(seq)])

\* C2: the sequences of stream_text, stream_text_sync and DemoAgent.invoke, on
\* every text (the empty one too), are non-empty, hold exactly one done-or-error
\* event, and that event is their last element.
C2_TerminalUniqueness ==
    /\ \A i \in Invs :
          agent.kind \in {"demo", "stream_text"} =>
              TerminalLast(produced[i], gen[i].pc = "closed")
    /\ sync.active => TerminalLast(sync.out, sync.pc = "closed")

\* stream_text on the empty text has run to its end
C2_Witness ==
    \E i \in Invs :
        /\ agent.kind = "stream_text"
        /\ ctx[i] # None
        /\ ctx[i][1].input_message.content = <<>>
        /\ gen[i].pc = "closed"
        /\ Len(produced[i]) = 1

\* C3: what the dispatcher handed to the transport is what the agent yielded, in
\* the same order, nothing dropped, merged, repeated or added; the agent is never
\* more than the one element ahead that the dispatcher is sending; and this holds
\* for handlers that go on after a done/error event or end without one.
C3_Forwarding ==
    \A i \in Invs :
        IF dpc[i].pc = "send"
        THEN produced[i] = Append(sent[i], dpc[i].chunk[1])
        ELSE produced[i] = sent[i]

\* a handler that yielded an element after its done/error event, all of it sent
C3_Witness ==
    \E i \in Invs :
        /\ agent.kind = "script"
        /\ dpc[i].pc = "complete"
        /\ \E k \in 1..(Len(sent[i]) - 1) : IsTerminal(sent[i][k])

\* C4: with invocations interleaved, each one's context comes from its own
\* request, its response stream is a prefix of what the agent yields for that
\* context when run alone, and every delta in it carries its own resolved run_id.
C4_Isolation ==
    \A i \in Invs :
        ctx[i] # None =>
            /\ ctx[i][1].run_id = HeaderGet(req[i].headers.X_Run_ID, req[i].body.run_id)
            /\ ctx[i][1].input_message = req[i].body.input_message
            /\ IsPrefix(sent[i],
                        Drain(agent, ctx[i][1],
                              SSEResponse_init(Some(ctx[i][1].run_id)), NewFrame))
            /\ \A k \in 1..Len(sent[i]) :
                  sent[i][k].event = "delta" =>
                      sent[i][k].data.json.run_id = ctx[i][1].run_id

\* two invocations with different run ids, both in the middle of their streams
C4_Witness ==
    \E i, j \in Invs :
        /\ i # j
        /\ ctx[i] # None /\ ctx[j] # None
        /\ ctx[i][1].run_id # ctx[j][1].run_id
        /\ sent[i] # <<>> /\ sent[j] # <<>>
        /\ ~HasTerminal(sent[i]) /\ ~HasTerminal(sent[j])

\* C5: under fair scheduling of the tasks every invocation gets its done/error
\* event onto its response stream, however the steps of the other invocations,
\* their sleeps between chunks included, are interleaved with its own. (A stream
\* only grows, so "eventually all have it" is "each eventually has it".)
C5_AllTerminate == <>(\A i \in DOMAIN sent : HasTerminal(sent[i]))

\* one invocation is asleep between two chunks while another has finished
C5_Witness ==
    \E i, j \in Invs :
        /\ i # j
        /\ gen[i].pc = "sleeping"
        /\ HasTerminal(sent[j])

\* C6: once a ToolResult returned for a tool_call_id was succeeded or failed,
\* every ToolResult returned for it later (by get_status, and by invoke and wait
\* as well) has that same status.
C6_TerminalIsFinal ==
    outcome # None /\ outcome[1].kind = "return" =>
        LET r == outcome[1].value[1]
        IN  r.tool_call_id \in ToolCallIds /\ seenTerminal[r.tool_call_id] # None =>
                r.status = seenTerminal[r.tool_call_id][1].status

\* get_status returned a ToolResult for a call whose terminal status the caller
\* had already got from the invoke
C6_Witness ==
    /\ op.name = "get_status"
    /\ outcome # None
    /\ outcome[1].kind = "return"
    /\ seenTerminal[op.tool_call_id] # None
    /\ seenTerminal[op.tool_call_id][1].by = "invoke"

CountKind(kind) == Cardinality({k \in 1..Len(reqs) : reqs[k].kind = kind})

RespOk == resp # None /\ resp[1].error = "" /\ resp[1].code \in 200..299

\* C7: invoke_and_wait sends one invoke; it sends one wait, for the id the invoke
\* returned, exactly when the invoke's result is pending, and returns what that
\* wait gave, pending or not; otherwise it sends no wait and returns the invoke's
\* result. There is never a second invoke or a second wait.
C7_InvokeAndWait ==
    op.name = "invoke_and_wait" =>
        /\ CountKind("invoke") = 1
        /\ reqs[1].kind = "invoke"
        /\ CountKind("wait") = Len(reqs) - 1
        /\ Len(reqs) <= 2
        /\ op.pc = "invoke_sent" => Len(reqs) = 1
        /\ Len(reqs) = 2 =>
              /\ op.result # None
              /\ op.result[1].status = "pending"
              /\ reqs[2].kind = "wait"
              /\ reqs[2].id = op.result[1].tool_call_id
        /\ op.pc = "done" /\ RespOk =>
              /\ outcome[1].kind = "return"
              /\ outcome[1].value[1].status = resp[1].data[1].status
              /\ outcome[1].value[1].tool_call_id = resp[1].data[1].tool_call_id
              /\ Len(reqs) = 1 <=> ~(op.result # None)
              /\ Len(reqs) = 1 => outcome[1].value[1].status # "pending"
        /\ op.pc = "done" /\ ~RespOk => outcome[1].kind = "raise"

\* invoke_and_wait has sent its wait and returned a ToolResult that is still pending
C7_Witness ==
    /\ op.name = "invoke_and_wait"
    /\ op.pc = "done"
    /\ Len(reqs) = 2
    /\ outcome[1].kind = "return"
    /\ outcome[1].value[1].status = "pending"

\* C8: wait sends one request, and when the orchestrator answers it returns a
\* ToolResult with the status of that answer; an answer that is still pending
\* is returned like any other: no exception, no second poll.
C8_WaitOnce ==
    op.name = "wait" =>
        /\ Len(reqs) = 1
        /\ reqs[1].kind = "wait"
        /\ reqs[1].id = op.tool_call_id
        /\ op.pc = "done" /\ RespOk =>
              /\ outcome[1].kind = "return"
              /\ outcome[1].value[1].status = resp[1].data[1].status
              /\ outcome[1].value[1].tool_call_id = resp[1].data[1].tool_call_id

\* wait returned while the call is still pending at the orchestrator
C8_Witness ==
    /\ op.name = "wait"
    /\ op.pc = "done"
    /\ calls[op.tool_call_id] = "pending"
    /\ outcome[1].kind = "return"
    /\ Len(reqs) = 1

\* the orchestrator answered a wait "pending": timeout_ms ran out
BudgetRanOut ==
    /\ op.name = "wait"
    /\ op.pc = "done"
    /\ RespOk
    /\ resp[1].data[1].status = "pending"

\* C9 as stated: a wait whose budget runs out reaches the caller as an error.
C9_TimeoutIsError == BudgetRanOut => outcome[1].kind = "raise"

\* C9, amended: wait passes the caller's timeout_ms to the orchestrator as the
\* request's timeout_ms parameter, and a wait whose budget runs out returns a
\* ToolResult with status pending: no exception is raised for it.
C9_TimeoutIsPending ==
    op.name = "wait" =>
        /\ reqs[1].payload = [timeout_ms |-> op.timeout_ms]
        /\ BudgetRanOut =>
              /\ outcome[1].kind = "return"
              /\ ToolResult_pending(outcome[1].value[1])

\* a wait with a budget other than the default one ran out of it
C9_Witness ==
    /\ BudgetRanOut
    /\ op.timeout_ms # DefaultTimeoutMs
    /\ outcome[1].kind = "return"

\* C10 as stated: a transport failure of a tool operation reaches the caller as
\* a PlatformError.
C10_PlatformError ==
    outcome # None /\ outcome[1].kind = "raise" => outcome[1].exc = "PlatformError"

\* the last response the client received is a failure: a non-2xx status, or no
\* response at all
Failed == resp # None /\ TransportException(resp[1]) # ""

\* C11: when an outbound call fails, the operation ends there by raising the
\* failure: it returns no value, a streaming call has yielded no element, an
\* invoke_and_wait whose invoke failed has sent no wait, and one whose wait
\* failed does not return the pending result of its invoke.
C11_FailurePropagates ==
    Failed =>
        /\ op.pc = "done"
        /\ outcome # None
        /\ outcome[1].kind = "raise"
        /\ outcome[1].exc = TransportException(resp[1])
        /\ outcome[1].value = None
        /\ op.out = <<>>
        /\ op.name = "invoke_and_wait" => (op.result = None <=> Len(reqs) = 1)

\* the wait of an invoke_and_wait failed after its invoke had returned pending
C11_Witness ==
    /\ Failed
    /\ op.name = "invoke_and_wait"
    /\ Len(reqs) = 2
    /\ op.result # None
    /\ outcome # None /\ outcome[1].kind = "raise"

\* C12: no operation retries: every operation has sent exactly one request,
\* its own, from its call on, whether it succeeded or failed; invoke_and_wait
\* has sent one invoke and at most one wait after it.
C12_NoRetry ==
    op.name # "none" =>
        IF op.name = "invoke_and_wait"
        THEN /\ Len(reqs) \in 1..2
             /\ reqs[1].kind = "invoke"
             /\ Len(reqs) = 2 => reqs[2].kind = "wait"
        ELSE /\ Len(reqs) = 1
             /\ reqs[1].kind = op.name

\* an operation ended by raising a failure, with its one request sent
C12_Witness ==
    /\ Failed
    /\ op.pc = "done"
    /\ op.name \in {"invoke", "chat_completions", "chat_completions_stream"}
    /\ Len(reqs) = 1

\* C13: every ToolResult an operation returns has a status among succeeded,
\* pending and failed; the one invoke returns is pending or terminal.
C13_StatusDomain ==
    (outcome # None /\ outcome[1].kind = "return") =>
        /\ outcome[1].value[1].status \in {"succeeded", "pending", "failed"}
        /\ op.name = "invoke" =>
              \/ ToolResult_pending(outcome[1].value[1])
              \/ outcome[1].value[1].status \in TerminalStatus

\* invoke returned a ToolResult that is still pending
C13_Witness ==
    /\ op.name = "invoke"
    /\ outcome # None /\ outcome[1].kind = "return"
    /\ ToolResult_pending(outcome[1].value[1])

\* the streaming call name has its response open: the loop over the lines is
\* running or has ended
Opened(name) == op.name = name /\ op.pc \in {"reading", "done"} /\ ~Failed

\* the position of the first line of ls that satisfies P, Len(ls) + 1 if none does
FirstIdx(ls, P(_)) ==
    IF \E k \in 1..Len(ls) : P(ls[k])
    THEN CHOOSE k \in 1..Len(ls) : P(ls[k]) /\ \A j \in 1..(k - 1) : ~P(ls[j])
    ELSE Len(ls) + 1

\* the positions among the first n lines of ls that satisfy P, in order
Positions(ls, n, P(_)) == SelectSeq([k \in 1..n |-> k], LAMBDA k : P(ls[k]))

\* the lines chat_completions_stream takes for data, for the sentinel, and the
\* data lines it cannot decode
IsLLMData(l) == StartsWith(l, DataSpace)
IsLLMSentinel(l) == l = DataSpace \o DoneSentinel
IsLLMUndecodable(l) ==
    IsLLMData(l) /\ ~IsLLMSentinel(l) /\ ~json_loads(From(l, 6)).ok

\* what chat_completions_stream has delivered once it read n lines of ls: the
\* payloads of the data lines before the first sentinel (and before the first
\* line it cannot decode), decoded, in order
LLMExpected(ls, n) ==
    LET stop == Min(FirstIdx(ls, IsLLMSentinel), FirstIdx(ls, IsLLMUndecodable))
        idx == Positions(ls, Min(n, stop - 1), IsLLMData)
    IN  [j \in 1..Len(idx) |-> json_loads(From(ls[idx[j]], 6)).val]

\* C14: chat_completions_stream yields the decoded payload of every "data: "
\* line before the first "data: [DONE]" line, in order, and passes over the
\* lines without the prefix; at the sentinel it stops and yields nothing for
\* it, and it never reads a line after the sentinel.
C14_Sentinel ==
    Opened("chat_completions_stream") =>
        /\ op.out = LLMExpected(op.lines, op.pos)
        /\ op.pos <= FirstIdx(op.lines, IsLLMSentinel)
        /\ outcome = Some(Stopped) =>
              op.pos = Min(Len(op.lines), FirstIdx(op.lines, IsLLMSentinel))

\* the stream stopped at the sentinel with an element delivered before it and a
\* data line left unread after it
C14_Witness ==
    /\ Opened("chat_completions_stream")
    /\ outcome = Some(Stopped)
    /\ op.pos < Len(op.lines)
    /\ IsLLMData(op.lines[op.pos + 1])
    /\ Len(op.out) = 1

\* the stripped line AgentClient.invoke takes for data, and its payload
IsRelayData(l) == StartsWith(Strip(l), DataColon)
RelayPayload(l) == Strip(From(Strip(l), 5))
IsRelayEvent(l) == StartsWith(Strip(l), EventColon) /\ Strip(l) # <<>>

\* a data line whose payload is not JSON and is not the sentinel of the LLM stream
Undecodable(name, l) ==
    IF name = "chat_completions_stream" THEN IsLLMUndecodable(l)
    ELSE /\ IsRelayData(l)
         /\ RelayPayload(l) # DoneSentinel
         /\ ~json_loads(RelayPayload(l)).ok

\* the loop of a streaming call run over ls from the start: the elements it
\* yields, and how it ends
RECURSIVE RunLines(_, _, _, _)
RunLines(name, ls, event_type, acc) ==
    IF ls = <<>> THEN [out |-> acc, exc |-> ""]
    ELSE LET step == IF name = "chat_completions_stream" THEN LLMClient_line(Head(ls))
                     ELSE AgentClient_line(Head(ls), event_type)
         IN  CASE step.kind = "skip" -> RunLines(name, Tail(ls), step.event_type, acc)
               [] step.kind = "yield" ->
                    RunLines(name, Tail(ls), event_type, Append(acc, step.value[1]))
               [] step.kind = "break" -> [out |-> acc, exc |-> ""]
               [] step.kind = "raise" -> [out |-> acc, exc |-> step.value[1]]

StreamNames == {"chat_completions_stream", "agents.invoke"}

\* C15: in chat_completions_stream and in AgentClient.invoke a data line whose
\* payload is not valid JSON (and is not the sentinel) raises the decode error
\* at that line: it is the last line read, the call has ended with the error,
\* and what was delivered is what the lines before it gave, in order.
C15_DecodeError ==
    \A name \in StreamNames :
        Opened(name) =>
            \A k \in 1..op.pos :
                Undecodable(name, op.lines[k]) =>
                    /\ k = op.pos
                    /\ op.pc = "done"
                    /\ outcome = Some(Raised("json.JSONDecodeError"))
                    /\ op.out = RunLines(name, SubSeq(op.lines, 1, k - 1), None, <<>>).out

\* the relay raised the decode error with a pair delivered before the line and
\* a data line left unread after it
C15_Witness ==
    /\ Opened("agents.invoke")
    /\ outcome = Some(Raised("json.JSONDecodeError"))
    /\ Undecodable("agents.invoke", op.lines[op.pos])
    /\ Len(op.out) >= 1
    /\ op.pos < Len(op.lines)
    /\ IsRelayData(op.lines[op.pos + 1])

\* the type the last event: line among the first n lines of ls gave, None if
\* there is none
LastEventType(ls, n) ==
    LET idx == Positions(ls, n, IsRelayEvent) IN
    IF idx = <<>> THEN None ELSE Some(Strip(From(Strip(ls[idx[Len(idx)]]), 6)))

\* the pairs the relay has delivered once n lines of ls went through its loop:
\* one per data: line, typed by the last event: line before it
RelayExpected(ls, n) ==
    LET idx == Positions(ls, n, IsRelayData) IN
    [j \in 1..Len(idx) |->
        [type |-> LastEventType(ls, idx[j]), data |-> json_loads(RelayPayload(ls[idx[j]])).val]]

\* the lines that went through the loop without a raise
Passed == IF outcome # None /\ outcome[1].kind = "raise" /\ outcome[1].exc = "json.JSONDecodeError"
          THEN op.pos - 1 ELSE op.pos

\* C16: the relay parses line by line: a blank line and an event: line give no
\* pair, an event: line sets the type of the data: lines after it, every data:
\* line gives exactly one {type, data} pair, and a data: line before any event:
\* line gives a pair whose type is None, not an error.
C16_RelayParsing ==
    Opened("agents.invoke") =>
        /\ op.out = RelayExpected(op.lines, Passed)
        /\ op.pc = "reading" => op.event_type = LastEventType(op.lines, op.pos)

\* the relay delivered a pair with no type for a data: line that came first,
\* and a typed pair for one after an event: line
C16_Witness ==
    /\ Opened("agents.invoke")
    /\ Len(op.out) = 2
    /\ op.out[1].type = None
    /\ op.out[2].type = Some(NameChars("done"))
    /\ outcome = Some(Stopped)

\* the transport stream has ended: every line of the body was read, or the
\* connection broke
TransportEnded == op.pos = Len(op.lines) \/ outcome = Some(Raised("httpx.ReadError"))

\* C17 as stated: the relay's sequence ends exactly when the transport stream
\* ends, a [DONE] payload ending nothing: unless a data line that is neither
\* JSON nor the sentinel raised the decode error, the sequence has ended only
\* if the transport stream has.
C17_EndsWithTransport ==
    (/\ Opened("agents.invoke")
     /\ op.pc = "done"
     /\ \A k \in 1..op.pos : ~Undecodable("agents.invoke", op.lines[k]))
        => TransportEnded

\* C17, amended: the relay's sequence ends without an error exactly when the
\* transport stream ends; a relayed done or error event ends nothing, the
\* pairs of the data: lines after it are delivered in arrival order; a [DONE]
\* payload is no sentinel: the relay decodes it as JSON, which raises the
\* decode error and ends the sequence there.
C17_EndsNormallyWithTransport ==
    Opened("agents.invoke") =>
        /\ outcome = Some(Stopped) => op.pos = Len(op.lines)
        /\ (op.pc = "done" /\ ~TransportEnded) =>
              outcome = Some(Raised("json.JSONDecodeError"))
        /\ \A k \in 1..op.pos :
              (IsRelayData(op.lines[k]) /\ RelayPayload(op.lines[k]) = DoneSentinel) =>
                  /\ k = op.pos
                  /\ outcome = Some(Raised("json.JSONDecodeError"))
        /\ Len(op.out) = Len(Positions(op.lines, Passed, IsRelayData))

\* the relay delivered the pair of a data: line that came after the pair of a
\* done event, and ended when the lines did
C17_Witness ==
    /\ Opened("agents.invoke")
    /\ outcome = Some(Stopped)
    /\ Len(op.out) = 2
    /\ op.out[1].type = Some(NameChars("done"))
    /\ op.lines[1] = LineEventDone

\* the fields of f that are not None, with their values
Present(f) == [k \in {j \in DOMAIN f : f[j] # None} |-> f[k][1]]

\* the object an event of the given kind carries: the arguments that are not
\* absent (and, in a delta, the run_id of the builder)
ExpectedData(kind, args, run_id) ==
    CASE kind = "delta" -> Present([text |-> Some(args.text), run_id |-> run_id])
      [] kind = "state" -> Present([state |-> Some(args.state), detail |-> args.detail])
      [] kind = "done" ->
            Present([final_message |-> args.final_message,
                     usage |-> IF args.usage = None THEN None
                               ELSE Some(Present(args.usage[1]))])
      [] kind = "error" -> [code |-> args.code, message |-> args.message]

\* the string e split into lines and run through the loop of AgentClient.invoke
Relayed(e) == RunLines("agents.invoke", SplitLines(Characters(e)), None, <<>>)

\* C18 as stated: for every event kind and every payload, the string the
\* builder returns, split into lines and fed to the parser of
\* AgentClient.invoke, gives exactly one pair, whose type is the event kind and
\* whose data is the object of the payload's non-absent fields.
C18_RoundTrip ==
    codec.last # None =>
        LET l == codec.last[1] IN
        /\ Relayed(l.out).exc = ""
        /\ Len(Relayed(l.out).out) = 1
        /\ Relayed(l.out).out[1].type = Some(NameChars(l.kind))
        /\ Relayed(l.out).out[1].data = ExpectedData(l.kind, l.args, codec.made_with)

\* the keys ks appear in the JSON text of d and no other does
KeysOnWire(d, ks) ==
    /\ DOMAIN d = ks
    /\ json_loads(JsonObjectText(d)).ok
    /\ DOMAIN json_loads(JsonObjectText(d)).val = ks

\* C19: an absent value leaves no key in the encoded object: run_id of a delta
\* built without one, detail of a state, final_message and usage of a done,
\* every unset counter inside usage; none is written as null. The text of a
\* delta is a key of it even when it is empty.
C19_AbsentOmitted ==
    codec.last # None =>
        LET l == codec.last[1]
            d == l.out.data.json
        IN  CASE l.kind = "delta" ->
                    /\ KeysOnWire(d, {"text"} \cup
                                     (IF codec.made_with = None THEN {} ELSE {"run_id"}))
                    /\ d.text = l.args.text
              [] l.kind = "state" ->
                    KeysOnWire(d, {"state"} \cup
                                  (IF l.args.detail = None THEN {} ELSE {"detail"}))
              [] l.kind = "done" ->
                    /\ KeysOnWire(d, (IF l.args.final_message = None THEN {}
                                      ELSE {"final_message"})
                                     \cup (IF l.args.usage = None THEN {} ELSE {"usage"}))
                    /\ l.args.usage # None =>
                          DOMAIN d.usage =
                              {k \in DOMAIN l.args.usage[1] : l.args.usage[1][k] # None}
              [] l.kind = "error" -> KeysOnWire(d, {"code", "message"})

\* a done event without final_message whose usage has one counter set and the
\* others unset
C19_Witness ==
    /\ codec.last # None
    /\ codec.last[1].kind = "done"
    /\ codec.last[1].args.final_message = None
    /\ codec.last[1].args.usage # None
    /\ codec.last[1].args.usage[1].tokens # None
    /\ codec.last[1].args.usage[1].prompt_tokens = None

\* C20: a call on a builder is a function of its arguments and of the run_id
\* the builder was made with: after any calls made before, it returns what the
\* same call returns on a builder just made; no call changes the builder's
\* run_id; the run_id is in delta events only.
C20_Stateless ==
    /\ codec.self.run_id = codec.made_with
    /\ codec.last # None =>
          LET l == codec.last[1] IN
          /\ l.out = SSEResponse_call(SSEResponse_init(codec.made_with), l.kind, l.args)
          /\ Characters(l.out)
                = Characters(SSEResponse_call(SSEResponse_init(codec.made_with), l.kind, l.args))
          /\ l.kind = "delta" => DictGet(l.out.data.json, "run_id") = codec.made_with
          /\ l.kind # "delta" => "run_id" \notin DOMAIN l.out.data.json

\* a delta built on a builder with a run_id that had served a call before
C20_Witness ==
    /\ codec.calls >= 2
    /\ codec.made_with = Some(<<"r", "1">>)
    /\ codec.last[1].kind = "delta"
    /\ "run_id" \in DOMAIN codec.last[1].out.data.json

\* the exceptions a wrong call raises in the caller
CallerErrors == {"TypeError", "pydantic.ValidationError"}

\* the keyword arguments leave out code or message, or give None for one
Incomplete(kwargs) ==
    \E k \in {"code", "message"} : k \notin DOMAIN kwargs \/ kwargs[k] = None

\* C21: encoding an error event requires both code and message: a call of
\* sse.error in which either is absent raises a caller error and returns no
\* event string; a call with both returns one.
C21_ErrorRequiresBoth ==
    codec.attempt # None =>
        LET a == codec.attempt[1] IN
        IF Incomplete(a.kwargs)
        THEN /\ a.result.kind = "raise"
             /\ a.result.exc \in CallerErrors
             /\ a.result.value = None
             /\ codec.last = None
        ELSE /\ a.result.kind = "return"
             /\ codec.last # None
             /\ codec.last[1].out = a.result.value[1]
             /\ codec.last[1].out.event = "error"

\* error was called with a code and a message of None
C21_Witness ==
    /\ codec.attempt # None
    /\ DOMAIN codec.attempt[1].kwargs = {"code", "message"}
    /\ codec.attempt[1].kwargs["code"] # None
    /\ codec.attempt[1].kwargs["message"] = None
    /\ codec.attempt[1].result.kind = "raise"

\* the JSON body lacks a required key of InvokeRequest or of one of its messages
LacksRequired(raw) ==
    \/ \E k \in {"agent_id", "session_id", "run_id", "input_message"} : k \notin DOMAIN raw
    \/ \E k \in {"role", "content"} : k \notin DOMAIN raw["input_message"]
    \/ /\ "messages" \in DOMAIN raw
       /\ raw["messages"] # None
       /\ \E n \in DOMAIN raw["messages"][1], k \in {"role", "content"} :
             k \notin DOMAIN raw["messages"][1][n]

\* the roles the JSON body gives its input message and its transcript messages
RolesOf(raw) ==
    {raw["input_message"]["role"]}
        \cup (IF "messages" \in DOMAIN raw /\ raw["messages"] # None
              THEN {raw["messages"][1][n]["role"] : n \in DOMAIN raw["messages"][1]}
              ELSE {})

\* nothing of invocation i went past validation: no overridden body, no
\* context, the agent's generator never made or run, nothing sent
NotDispatched(i) ==
    /\ body[i] = None
    /\ ctx[i] = None
    /\ gen[i] = NewFrame
    /\ produced[i] = <<>>
    /\ sent[i] = <<>>
    /\ dpc[i].pc \in {"waiting", "rejected"}

\* C22 as stated: a request whose input_message.role, or the role of a
\* transcript message, is not one of user, assistant, system fails validation
\* before dispatch: Agent.invoke is never called and no stream byte is sent.
C22_RoleRejected ==
    \A i \in Invs :
        (~LacksRequired(req[i].body) /\ ~(RolesOf(req[i].body) \subseteq Role))
            => NotDispatched(i)

\* C23: a POST /invoke whose body lacks a required field is answered with a
\* 4xx response and nothing else: no context is built, Agent.invoke is not
\* called, no event is sent; and only a body that fails validation is rejected.
C23_MissingFieldRejected ==
    \A i \in Invs :
        /\ LacksRequired(req[i].body) => NotDispatched(i)
        /\ dpc[i].pc = "rejected" =>
              /\ LacksRequired(req[i].body)
              /\ dpc[i].chunk[1].status \in 400..499

\* a body whose only fault is a transcript message without content was rejected
C23_Witness ==
    \E i \in Invs :
        /\ dpc[i].pc = "rejected"
        /\ {"agent_id", "session_id", "run_id", "input_message"} \subseteq DOMAIN req[i].body
        /\ "content" \notin DOMAIN req[i].body["messages"][1][1]

C25_DefaultNormalization ==
    \A i \in Invs :
        /\ dpc[i].pc # "waiting" => ctx[i] # None /\ dpc[i].pc # "failed"
        /\ ctx[i] # None =>
              /\ ctx[i][1].messages =
                    (IF req[i].body.messages = None THEN <<>> ELSE req[i].body.messages[1])
              /\ ctx[i][1].context =
                    (IF req[i].body.context = None THEN EmptyDict
                     ELSE req[i].body.context[1])

\* a context built from a request with neither messages nor context
C25_Witness ==
    \E i \in Invs :
        /\ ctx[i] # None
        /\ req[i].body.messages = None
        /\ req[i].body.context = None

\* C26: the context's traceparent and platform_base_url are the values of the
\* headers traceparent and x-platform-base-url, and unset when the header is
\* absent, whatever the body holds, a context mapping with keys of these names
\* included.
C26_HeadersOnly ==
    \A i \in Invs :
        ctx[i] # None =>
            /\ ctx[i][1].traceparent = req[i].headers.traceparent
            /\ ctx[i][1].platform_base_url = req[i].headers.x_platform_base_url

\* a request without the two headers whose body context has keys traceparent
\* and platform_base_url, and the context built from it
C26_Witness ==
    \E i \in Invs :
        /\ ctx[i] # None
        /\ req[i].headers.traceparent = None
        /\ req[i].headers.x_platform_base_url = None
        /\ req[i].body.context # None
        /\ {"traceparent", "platform_base_url"} \subseteq DOMAIN req[i].body.context[1]
        /\ ctx[i][1].traceparent = None

\* the operations of the tool sub-client that return a ToolResult
ToolOps == {"invoke", "get_status", "wait", "invoke_and_wait"}

\* C27: a ToolResult the caller got from an earlier operation is never changed
\* by a later one, and the ToolResult an operation returns has the
\* tool_call_id, status, result and error of the body of the response that
\* operation received: a tool call's change of status shows only in the
\* ToolResult of a new poll.
C27_ResultsNotMutated ==
    /\ [][held # None => held' = held]_vars
    /\ [](op.name \in ToolOps /\ op.pc = "done" /\ outcome # None
            /\ outcome[1].kind = "return" =>
               LET d == resp[1].data[1]
                   v == outcome[1].value[1]
               IN  /\ v.tool_call_id = d.tool_call_id
                   /\ v.status = d.status
                   /\ v.result = (IF "result" \in DOMAIN d THEN Some(d.result) ELSE None)
                   /\ v.error = (IF "error" \in DOMAIN d THEN Some(d.error) ELSE None))

\* the caller holds a pending ToolResult of a tool call while a later poll of
\* the same call has returned a terminal one
C27_Witness ==
    /\ held # None
    /\ held[1].status = "pending"
    /\ outcome # None
    /\ outcome[1].kind = "return"
    /\ op.name \in {"get_status", "wait"}
    /\ outcome[1].value[1].tool_call_id = held[1].tool_call_id
    /\ outcome[1].value[1].status \in TerminalStatus

\* the texts of the events of seq, one after the other
RECURSIVE Concatenated(_)
Concatenated(seq) ==
    IF seq = <<>> THEN <<>> ELSE seq[1].data.json.text \o Concatenated(Tail(seq))

\* out, the elements yielded so far for text with chunk size cs, is a start of:
\* ceil(len(text)/cs) deltas of cs characters each, the last one of what is
\* left, together spelling text, then one done event with final_message text;
\* and it is all of that once the generator has ended
StreamTextShape(out, text, cs, ended) ==
    LET n == (Len(text) + cs - 1) \div cs
        deltas == SubSeq(out, 1, IF Len(out) < n THEN Len(out) ELSE n)
    IN  /\ Len(out) <= n + 1
        /\ ended => Len(out) = n + 1
        /\ \A k \in 1..Len(deltas) :
              /\ deltas[k].event = "delta"
              /\ Len(deltas[k].data.json.text) >= 1
              /\ k < n => Len(deltas[k].data.json.text) = cs
              /\ k = n => Len(deltas[k].data.json.text) <= cs
        /\ IsPrefix(Concatenated(deltas), text)
        /\ Len(deltas) = n => Concatenated(deltas) = text
        /\ Len(out) = n + 1 =>
              /\ out[n + 1].event = "done"
              /\ out[n + 1].data.json.final_message = text

\* C28: for every text and every chunk_size >= 1, stream_text and
\* stream_text_sync yield deltas whose texts spell the input text in order,
\* each of chunk_size characters but possibly the last, none empty, then one
\* done event whose final_message is the text, and then end:
\* ceil(len(text)/chunk_size) deltas and one done.
C28_StreamTextChunks ==
    /\ \A i \in Invs :
          agent.kind = "stream_text" /\ ctx[i] # None =>
              StreamTextShape(produced[i], ctx[i][1].input_message.content,
                              agent.chunk_size, gen[i].pc = "closed")
    /\ sync.active =>
          StreamTextShape(sync.out, sync.text, sync.chunk_size, sync.pc = "closed")

\* stream_text_sync has ended on a text of several chunks of more than one
\* character and a shorter last one
C28_Witness ==
    /\ sync.active
    /\ sync.pc = "closed"
    /\ sync.chunk_size > 1
    /\ Len(sync.text) > 2 * sync.chunk_size
    /\ Len(sync.text) % sync.chunk_size # 0

\* C29: the relay keeps its pending event type when it yields a pair: the pair
\* carries the pending type and leaves it pending, so of two data: lines with
\* no event: line between them the second gives a pair of the same type as the
\* first, and the pending type is unset exactly while no event: line has been
\* read.
C29_TypeNotCleared ==
    /\ [][(op.name = "agents.invoke" /\ op.pc = "reading" /\ op'.name = op.name
             /\ Len(op'.out) = Len(op.out) + 1) =>
               /\ op'.out[Len(op'.out)].type = op.event_type
               /\ op'.event_type = op.event_type]_vars
    /\ [](Opened("agents.invoke") =>
             LET idx == Positions(op.lines, Passed, IsRelayData) IN
             /\ op.event_type = None <=> Positions(op.lines, op.pos, IsRelayEvent) = <<>>
             /\ \A j \in 1..(Len(op.out) - 1) :
                   (\A k \in (idx[j] + 1)..(idx[j + 1] - 1) : ~IsRelayEvent(op.lines[k]))
                       => op.out[j + 1].type = op.out[j].type)

\* an event: line followed by two data: lines, both delivered with its type
C29_Witness ==
    /\ Opened("agents.invoke")
    /\ op.pos = 3
    /\ IsRelayEvent(op.lines[1])
    /\ Len(op.out) = 2
    /\ op.out[1].type # None
    /\ op.out[2].type = op.out[1].type

\* C30: the headers X-Session-ID and X-Run-ID change session_id and run_id
\* and nothing else: under every combination of headers the body the handler
\* works on differs from the one received in these two fields at most, and the
\* context's agent_id, input_message, messages and context are the received
\* body's (absent messages and context being empty).
C30_OverrideFrame ==
    \A i \in Invs :
        /\ body[i] # None =>
              [body[i][1] EXCEPT !.session_id = req[i].body.session_id,
                                 !.run_id = req[i].body.run_id] = req[i].body
        /\ ctx[i] # None =>
              /\ ctx[i][1].agent_id = req[i].body.agent_id
              /\ ctx[i][1].input_message = req[i].body.input_message
              /\ req[i].body.messages # None =>
                    ctx[i][1].messages = req[i].body.messages[1]
              /\ req[i].body.messages = None => ctx[i][1].messages = <<>>
              /\ req[i].body.context # None =>
                    ctx[i][1].context = req[i].body.context[1]
              /\ req[i].body.context = None => DOMAIN ctx[i][1].context = {}

\* both override headers differ from the body's identifiers, and the body has
\* a transcript and a context mapping
C30_Witness ==
    \E i \in Invs :
        /\ ctx[i] # None
        /\ req[i].headers.X_Session_ID # None
        /\ req[i].headers.X_Run_ID # None
        /\ req[i].headers.X_Session_ID[1] # req[i].body.session_id
        /\ req[i].headers.X_Run_ID[1] # req[i].body.run_id
        /\ req[i].body.messages # None
        /\ Len(ctx[i][1].messages) = 1
        /\ DOMAIN ctx[i][1].context # {}

====
